---- MODULE Spec2Model ----
(***************************************************************************)
(* Model of squid-log-exporter 2.0: the position tracker                   *)
(* (internal/position), the log parser (internal/parser), the domain       *)
(* configuration (internal/config) and the counter-delta engine            *)
(* (internal/metrics).                                                     *)
(*                                                                         *)
(* Strings are TLA+ strings; byte offsets in the log are character         *)
(* offsets into the string that is the file's content, "\n" included.      *)
(* Go maps are functions with a finite DOMAIN; a missing key reads as the  *)
(* zero value (Get).  Durations are kept in whole milliseconds, so the     *)
(* float64 comparisons of getDurationBucket become integer comparisons.    *)
(***************************************************************************)
EXTENDS Integers, Sequences, FiniteSets, TLC

(***************************************************************************)
(* Bounds of the model.                                                    *)
(***************************************************************************)
MaxAppends == 2        \* log lines the log producer writes in one behaviour
MaxInode == 2          \* inodes the log path goes through (rotations + 1)
MaxFaults == 1         \* position saves that fail in one behaviour
MaxDomainsBound == 1   \* largest max_domains a configuration sets
MaxArg == 2            \* largest count handed to the delta engine directly
MaxCalls == 3          \* direct calls of the delta engine in one behaviour
MaxTicks == 2          \* ticks the main loop serves in one behaviour
WriteChunks == 2       \* write system calls one os.WriteFile of a position takes
MaxLines == 3          \* lines of a log that is scanned as a whole
MaxRetryAttempts == 3  \* largest retry_attempts a configuration sets
MaxRules == 2          \* monitored_domains, and domain_patterns, of a configuration
MaxRuns == 2           \* Parse calls of one goroutine in the lock model
MaxSamples == 4        \* durations of a sample, every sequence of them
MaxRamp == 20          \* durations of a sample, descending

(***************************************************************************)
(* Program constants, scaled down so that small logs exercise them:        *)
(* maxScanTokenSize is 1024*1024 bytes and the checkpoint interval is 1000 *)
(* lines in the source.                                                    *)
(***************************************************************************)
maxScanTokenSize == 48
DefaultRetryAttempts == 3  \* validateConfig: RetryAttempts of 0 becomes 3
CheckpointLines == 2

(***************************************************************************)
(* Generic helpers.                                                        *)
(***************************************************************************)
Get(m, k) == IF k \in DOMAIN m THEN m[k] ELSE 0

Put(m, k, v) == [x \in DOMAIN m \cup {k} |-> IF x = k THEN v ELSE m[x]]

Inc(m, k, n) == Put(m, k, Get(m, k) + n)

Max(a, b) == IF a >= b THEN a ELSE b

Min(a, b) == IF a <= b THEN a ELSE b

EmptyMap == [x \in {} |-> 0]

Ch(s, i) == SubSeq(s, i, i)

\* strings.HasPrefix
HasPrefix(s, p) == Len(s) >= Len(p) /\ SubSeq(s, 1, Len(p)) = p

\* bytes.IndexByte / strings.Index for a one-character separator:
\* 1-based index of the first occurrence at or after from, 0 when absent.
RECURSIVE IndexFrom(_, _, _)
IndexFrom(s, c, from) ==
    IF from > Len(s) THEN 0
    ELSE IF Ch(s, from) = c THEN from
    ELSE IndexFrom(s, c, from + 1)

\* strings.Split(s, sep) for a one-character separator
RECURSIVE Split(_, _)
Split(s, sep) ==
    LET i == IndexFrom(s, sep, 1)
    IN  IF i = 0 THEN <<s>>
        ELSE <<SubSeq(s, 1, i - 1)>> \o Split(SubSeq(s, i + 1, Len(s)), sep)

Digits == {"0", "1", "2", "3", "4", "5", "6", "7", "8", "9"}

DigitVal(c) ==
    CASE c = "0" -> 0 [] c = "1" -> 1 [] c = "2" -> 2 [] c = "3" -> 3
      [] c = "4" -> 4 [] c = "5" -> 5 [] c = "6" -> 6 [] c = "7" -> 7
      [] c = "8" -> 8 [] c = "9" -> 9

IsNumber(s) == Len(s) > 0 /\ \A i \in 1..Len(s) : Ch(s, i) \in Digits

RECURSIVE NumVal(_)
NumVal(s) ==
    IF Len(s) = 0 THEN 0
    ELSE 10 * NumVal(SubSeq(s, 1, Len(s) - 1)) + DigitVal(Ch(s, Len(s)))

\* strconv.ParseInt(s, 10, 64) and strconv.ParseFloat(s, 64) on the inputs
\* of the model (unsigned decimal integers, or text that is no number);
\* the callers replace a parse error by 0.
ParseNumberOrZero(s) == IF IsNumber(s) THEN NumVal(s) ELSE 0

(***************************************************************************)
(* internal/config: the configuration the parser runs under.               *)
(***************************************************************************)
\* A custom log format with the six required fields.
LogFormatFields ==
    [timestamp |-> 0, duration |-> 1, result_code |-> 2,
     bytes |-> 3, method |-> 4, url |-> 5]

DurationUnit == "ms"

\* monitored_domains of the configuration, in configured order
MonitoredDomains ==
    << [Host |-> "a.io", Port |-> "", Labels |-> [team |-> "x"]] >>

\* the custom format as a LogFormatConfig
CustomFormat == [Fields |-> LogFormatFields, DurationUnit |-> DurationUnit]

\* logFormatPresets["squid_native"]
squid_native ==
    [Fields |-> [timestamp |-> 0, duration |-> 1, client_ip |-> 2, result_code |-> 3,
                 bytes |-> 4, method |-> 5, url |-> 6, rfc931 |-> 7, hierarchy |-> 8,
                 content_type |-> 9],
     DurationUnit |-> "ms"]

\* LogFormatConfig.GetField of a format
GetFieldOf(format, fields, fieldName) ==
    IF fieldName \in DOMAIN format.Fields
       /\ format.Fields[fieldName] < Len(fields)
    THEN fields[format.Fields[fieldName] + 1]
    ELSE ""

\* LogFormatConfig.GetField
GetField(fields, fieldName) == GetFieldOf(CustomFormat, fields, fieldName)

RECURSIVE FirstExact(_, _, _)
FirstExact(host, port, i) ==
    IF i > Len(MonitoredDomains) THEN 0
    ELSE IF MonitoredDomains[i].Host = host
            /\ (MonitoredDomains[i].Port = "" \/ MonitoredDomains[i].Port = port)
         THEN i
         ELSE FirstExact(host, port, i + 1)

\* Config.IsMonitored (the configuration of the model has no domain_patterns)
IsMonitored(host, port) == FirstExact(host, port, 1) # 0

MonitoredLabels(host, port) == MonitoredDomains[FirstExact(host, port, 1)].Labels

\* regexp "^" + QuoteMeta(pattern) + "$" with every \* replaced by .*,
\* MatchString(host): pattern from index i against host from index j
RECURSIVE MatchFrom(_, _, _, _)
MatchFrom(pattern, i, host, j) ==
    IF i > Len(pattern) THEN j > Len(host)
    ELSE IF Ch(pattern, i) = "*"
    THEN \/ MatchFrom(pattern, i + 1, host, j)
         \/ (j <= Len(host) /\ MatchFrom(pattern, i, host, j + 1))
    ELSE /\ j <= Len(host)
         /\ Ch(pattern, i) = Ch(host, j)
         /\ MatchFrom(pattern, i + 1, host, j + 1)

\* pattern.regex.MatchString(host)
MatchString(pattern, host) == MatchFrom(pattern, 1, host, 1)

\* the first loop of IsMonitored over the rules of c, from rule i
RECURSIVE ExactLoop(_, _, _, _)
ExactLoop(rules, host, port, i) ==
    IF i > Len(rules) THEN 0
    ELSE IF rules[i].Host = host /\ (rules[i].Port = "" \/ rules[i].Port = port)
         THEN i
         ELSE ExactLoop(rules, host, port, i + 1)

\* the second loop of IsMonitored over the patterns of c, from pattern i
RECURSIVE PatternLoop(_, _, _)
PatternLoop(patterns, host, i) ==
    IF i > Len(patterns) THEN 0
    ELSE IF MatchString(patterns[i].Pattern, host) THEN i
         ELSE PatternLoop(patterns, host, i + 1)

NotMonitored == [ok |-> FALSE, Host |-> "", Port |-> "", Labels |-> <<>>]

\* the rule IsMonitored returns for pattern k: the observed host and port
FromPattern(c, k, host, port) ==
    [ok |-> TRUE, Host |-> host, Port |-> port, Labels |-> c.DomainPatterns[k].Labels]

\* the rule IsMonitored returns for exact rule i: the rule itself
FromRule(c, i) ==
    [ok |-> TRUE, Host |-> c.MonitoredDomains[i].Host,
     Port |-> c.MonitoredDomains[i].Port, Labels |-> c.MonitoredDomains[i].Labels]

\* IsMonitored that tries the patterns before the exact rules
IsMonitoredCfg_PatternsFirst(c, host, port) ==
    IF PatternLoop(c.DomainPatterns, host, 1) # 0
    THEN FromPattern(c, PatternLoop(c.DomainPatterns, host, 1), host, port)
    ELSE IF ExactLoop(c.MonitoredDomains, host, port, 1) # 0
    THEN FromRule(c, ExactLoop(c.MonitoredDomains, host, port, 1))
    ELSE NotMonitored

\* Config.IsMonitored for a configuration c = [MonitoredDomains, DomainPatterns]
IsMonitoredCfg(c, host, port) ==
    IF ExactLoop(c.MonitoredDomains, host, port, 1) # 0
    THEN FromRule(c, ExactLoop(c.MonitoredDomains, host, port, 1))
    ELSE IF PatternLoop(c.DomainPatterns, host, 1) # 0
    THEN FromPattern(c, PatternLoop(c.DomainPatterns, host, 1), host, port)
    ELSE NotMonitored

\* the label keys a configuration of the model may use, as sort.Strings
\* orders them
LabelKeysSorted == <<"env", "team">>

\* the keys of the label maps of the rules from rule i on
RECURSIVE LabelKeySet(_, _)
LabelKeySet(rules, i) ==
    IF i > Len(rules) THEN {} ELSE DOMAIN rules[i].Labels \cup LabelKeySet(rules, i + 1)

\* the members of keySet in sorted order
SortStrings(keySet) ==
    LET InSet(k) == k \in keySet
    IN  SelectSeq(LabelKeysSorted, InSet)

\* Config.GetCustomLabelKeys for a configuration c
GetCustomLabelKeys(c) ==
    SortStrings(LabelKeySet(c.MonitoredDomains, 1) \cup LabelKeySet(c.DomainPatterns, 1))

\* Config.GetCustomLabelKeys: the sorted label keys of all rules
customLabelKeys == <<"team">>

(***************************************************************************)
(* internal/parser: parsing of one line.                                   *)
(***************************************************************************)
\* splitPreservingQuotes, the body of its loop for one character:
\* st = [fields, current, inQuote]
SplitStep(st, char) ==
    IF char = "\""
    THEN [st EXCEPT !.inQuote = ~st.inQuote]
    ELSE IF char = " " /\ ~st.inQuote
    THEN IF Len(st.current) > 0
         THEN [st EXCEPT !.fields = Append(st.fields, st.current), !.current = ""]
         ELSE st
    ELSE [st EXCEPT !.current = st.current \o char]

\* the loop over the characters lo..hi of s, in order, by halves
RECURSIVE SplitRange(_, _, _, _), SplitRight(_, _, _, _)
SplitRange(s, lo, hi, st) ==
    IF lo > hi THEN st
    ELSE IF lo = hi THEN SplitStep(st, Ch(s, lo))
    ELSE SplitRight(s, (lo + hi) \div 2 + 1, hi, SplitRange(s, lo, (lo + hi) \div 2, st))

\* the second half of the loop, once the first half has left its state
SplitRight(s, lo, hi, st) == IF st.inQuote \in BOOLEAN THEN SplitRange(s, lo, hi, st) ELSE st

\* splitPreservingQuotes after its loop
SplitEnd(st) == IF Len(st.current) > 0 THEN Append(st.fields, st.current) ELSE st.fields

splitPreservingQuotes(s) ==
    SplitEnd(SplitRange(s, 1, Len(s), [fields |-> <<>>, current |-> "", inQuote |-> FALSE]))

categorizeHTTPCode(code) ==
    IF Len(code) = 0 THEN "unknown"
    ELSE LET c == Ch(code, 1)
         IN  CASE c = "2" -> "2xx" [] c = "3" -> "3xx" [] c = "4" -> "4xx"
               [] c = "5" -> "5xx" [] OTHER -> "other"

\* getDurationBucket, with the duration in milliseconds
getDurationBucket(ms) ==
    CASE ms < 100 -> "0.1"
      [] ms >= 100 /\ ms < 500 -> "0.5"
      [] ms >= 500 /\ ms < 1000 -> "1"
      [] ms >= 1000 /\ ms < 5000 -> "5"
      [] ms >= 5000 /\ ms < 10000 -> "10"
      [] OTHER -> "10+"

\* minFields of parseLine: the highest index of the format
minFieldsOf(format) ==
    LET idx == {format.Fields[f] : f \in DOMAIN format.Fields}
    IN  CHOOSE m \in idx \cup {0} : \A x \in idx : x <= m

minFields == minFieldsOf(CustomFormat)

\* net/url Parse, Hostname and Port for "http://" and "https://" URLs whose
\* authority is host or host:port: [ok, scheme, host, port]
ParseURL(urlStr) ==
    LET scheme == IF HasPrefix(urlStr, "https://") THEN "https" ELSE "http"
        rest == SubSeq(urlStr, Len(scheme) + 4, Len(urlStr))
        slash == IndexFrom(rest, "/", 1)
        authority == IF slash = 0 THEN rest ELSE SubSeq(rest, 1, slash - 1)
        colon == IndexFrom(authority, ":", 1)
        host == IF colon = 0 THEN authority ELSE SubSeq(authority, 1, colon - 1)
        port == IF colon = 0 THEN "" ELSE SubSeq(authority, colon + 1, Len(authority))
    IN  [ok |-> port = "" \/ IsNumber(port), scheme |-> scheme,
         host |-> host, port |-> port]

\* HostPort with port 80 as the default of a CONNECT target
HostPort_Connect80(method, urlStr) ==
    IF HasPrefix(urlStr, "cache_object://") \/ HasPrefix(urlStr, "mgr://")
       \/ HasPrefix(urlStr, "internal://") \/ HasPrefix(urlStr, "urn:")
    THEN [skip |-> TRUE, host |-> "", port |-> ""]
    ELSE IF HasPrefix(urlStr, "http://") \/ HasPrefix(urlStr, "https://")
    THEN [skip |-> ~ParseURL(urlStr).ok \/ ParseURL(urlStr).host \in {"", "-", "localhost"},
          host |-> ParseURL(urlStr).host,
          port |-> IF ParseURL(urlStr).port # "" THEN ParseURL(urlStr).port
                   ELSE IF ParseURL(urlStr).scheme = "https" THEN "443" ELSE "80"]
    ELSE [skip |-> Split(urlStr, ":")[1] \in {"", "-", "localhost"},
          host |-> Split(urlStr, ":")[1],
          port |-> IF Len(Split(urlStr, ":")) >= 2 THEN Split(urlStr, ":")[2] ELSE "80"]

\* the host and port parseLine derives from method and URL:
\* [skip, host, port]; skip means no per-domain statistics for the line
HostPort(method, urlStr) ==
    IF HasPrefix(urlStr, "cache_object://") \/ HasPrefix(urlStr, "mgr://")
       \/ HasPrefix(urlStr, "internal://") \/ HasPrefix(urlStr, "urn:")
    THEN [skip |-> TRUE, host |-> "", port |-> ""]
    ELSE LET hp ==
               IF method = "CONNECT"
               THEN LET hostPort == Split(urlStr, ":")
                    IN  [ok |-> TRUE, host |-> hostPort[1],
                         port |-> IF Len(hostPort) >= 2 THEN hostPort[2] ELSE "443"]
               ELSE IF HasPrefix(urlStr, "http://") \/ HasPrefix(urlStr, "https://")
               THEN LET u == ParseURL(urlStr)
                    IN  [ok |-> u.ok, host |-> u.host,
                         port |-> IF u.port # "" THEN u.port
                                  ELSE IF u.scheme = "https" THEN "443" ELSE "80"]
               ELSE LET hostPort == Split(urlStr, ":")
                    IN  [ok |-> TRUE, host |-> hostPort[1],
                         port |-> IF Len(hostPort) >= 2 THEN hostPort[2] ELSE "80"]
         IN  [skip |-> ~hp.ok \/ hp.host = "" \/ hp.host = "-" \/ hp.host = "localhost",
              host |-> hp.host, port |-> hp.port]

\* a fresh DomainData
NewDomainData ==
    [Requests |-> 0, BytesIn |-> 0, BytesOut |-> 0,
     ResponsesByCode |-> EmptyMap, ResponsesByCategory |-> EmptyMap,
     Durations |-> <<>>, CacheHits |-> 0, CacheMisses |-> 0]

\* updateDomainStats that counts a miss for every status that is no hit
updateDomainStats_MissElse(stats, host, port, bytes, httpCode, category, duration, cacheStatus) ==
    LET key == <<host, port>>
        data == IF key \in DOMAIN stats.DomainData
                THEN stats.DomainData[key] ELSE NewDomainData
        hit == HasPrefix(cacheStatus, "TCP_HIT") \/ HasPrefix(cacheStatus, "TCP_MEM_HIT")
    IN  [stats EXCEPT !.DomainData =
            Put(@, key, [data EXCEPT
                           !.Requests = @ + 1,
                           !.BytesOut = @ + bytes,
                           !.Durations = Append(@, duration),
                           !.ResponsesByCode = Inc(@, <<httpCode, category>>, 1),
                           !.ResponsesByCategory = Inc(@, category, 1),
                           !.CacheHits = IF hit THEN @ + 1 ELSE @,
                           !.CacheMisses = IF hit THEN @ ELSE @ + 1])]

\* updateDomainStats that counts a request and adds its bytes to BytesIn
updateDomainStats_BytesIn(stats, host, port, bytes, httpCode, category, duration, cacheStatus) ==
    LET key == <<host, port>>
        data == IF key \in DOMAIN stats.DomainData
                THEN stats.DomainData[key] ELSE NewDomainData
    IN  [stats EXCEPT !.DomainData = Put(@, key, [data EXCEPT !.Requests = @ + 1, !.BytesIn = @ + bytes])]

\* Parser.updateDomainStats; DomainData is keyed by <<host, port>>
updateDomainStats(stats, host, port, bytes, httpCode, category, duration, cacheStatus) ==
    LET key == <<host, port>>
        data == IF key \in DOMAIN stats.DomainData
                THEN stats.DomainData[key] ELSE NewDomainData
        upd == [data EXCEPT
                  !.Requests = @ + 1,
                  !.BytesOut = @ + bytes,
                  !.Durations = Append(@, duration),
                  !.ResponsesByCode = Inc(@, <<httpCode, category>>, 1),
                  !.ResponsesByCategory = Inc(@, category, 1),
                  !.CacheHits = IF HasPrefix(cacheStatus, "TCP_HIT")
                                   \/ HasPrefix(cacheStatus, "TCP_MEM_HIT")
                                THEN @ + 1 ELSE @,
                  !.CacheMisses = IF ~(HasPrefix(cacheStatus, "TCP_HIT")
                                       \/ HasPrefix(cacheStatus, "TCP_MEM_HIT"))
                                     /\ HasPrefix(cacheStatus, "TCP_MISS")
                                  THEN @ + 1 ELSE @]
    IN  [stats EXCEPT !.DomainData = Put(@, key, upd)]

\* the Stats a run starts with
NewStats ==
    [Connections |-> 0, RequestDurations |-> EmptyMap, CacheStatuses |-> EmptyMap,
     HTTPResponses |-> EmptyMap, HTTPByCategory |-> EmptyMap, DomainData |-> EmptyMap]

\* parseLine that counts the connection before it rejects the line
parseLine_CountFirst(line, stats) ==
    LET fields == splitPreservingQuotes(line)
        counted == [stats EXCEPT !.Connections = @ + 1]
    IN  IF Len(fields) <= minFields THEN [err |-> TRUE, stats |-> counted]
        ELSE IF Len(Split(GetField(fields, "result_code"), "/")) # 2
        THEN [err |-> TRUE, stats |-> counted]
        ELSE [err |-> FALSE, stats |-> counted]

\* Parser.parseLine under a log format: [err, stats]; err = TRUE leaves
\* stats as they were
parseLineFormat(format, line, stats) ==
    LET fields == splitPreservingQuotes(line)
    IN  IF Len(fields) <= minFieldsOf(format) THEN [err |-> TRUE, stats |-> stats]
        ELSE
        LET elapsed == GetFieldOf(format, fields, "duration")
            resultCode == GetFieldOf(format, fields, "result_code")
            bytes == GetFieldOf(format, fields, "bytes")
            method == GetFieldOf(format, fields, "method")
            urlStr == GetFieldOf(format, fields, "url")
            parts == Split(resultCode, "/")
        IN  IF Len(parts) # 2 THEN [err |-> TRUE, stats |-> stats]
            ELSE
            LET cacheStatus == parts[1]
                httpCode == parts[2]
                category == categorizeHTTPCode(httpCode)
                duration == ParseNumberOrZero(elapsed)
                durationMs == IF format.DurationUnit = "ms" THEN duration ELSE duration * 1000
                bytesInt == ParseNumberOrZero(bytes)
                global == [stats EXCEPT
                             !.Connections = @ + 1,
                             !.RequestDurations = Inc(@, getDurationBucket(durationMs), 1),
                             !.CacheStatuses = Inc(@, cacheStatus, 1),
                             !.HTTPResponses = Inc(@, <<httpCode, category>>, 1),
                             !.HTTPByCategory = Inc(@, category, 1)]
                hp == HostPort(method, urlStr)
            IN  IF hp.skip THEN [err |-> FALSE, stats |-> global]
                ELSE [err |-> FALSE,
                      stats |-> updateDomainStats(global, hp.host, hp.port, bytesInt,
                                                  httpCode, category, durationMs,
                                                  cacheStatus)]

\* parseLine that leaves the internal-URL and excluded-host lines before it
\* counts the duration, the cache status and the HTTP code
parseLine_SkipBeforeCounts(line, stats) ==
    IF ~parseLineFormat(CustomFormat, line, stats).err
       /\ parseLineFormat(CustomFormat, line, stats).stats.DomainData = stats.DomainData
    THEN [err |-> FALSE, stats |-> [stats EXCEPT !.Connections = @ + 1]]
    ELSE parseLineFormat(CustomFormat, line, stats)

\* Parser.parseLine under the configured format
parseLine(line, stats) == parseLineFormat(CustomFormat, line, stats)

(***************************************************************************)
(* internal/metrics: the counter-delta engine.  The state of a Metrics is  *)
(* m = [lastSeen, counters, gauges]; a series is <<metric name, label      *)
(* values>>, and a series that was never touched reads as 0.               *)
(***************************************************************************)
NewMetrics == [lastSeen |-> EmptyMap, counters |-> EmptyMap, gauges |-> EmptyMap]

\* strings.Join(labels, "|")
RECURSIVE makeKey(_)
makeKey(labels) ==
    IF Len(labels) = 0 THEN ""
    ELSE IF Len(labels) = 1 THEN labels[1]
    ELSE labels[1] \o "|" \o makeKey(Tail(labels))

\* applyDelta with the delta added whatever its sign
applyDelta_Signed(m, key, series, value) ==
    LET lastValue == Get(m.lastSeen, key)
        delta == value - lastValue
    IN  [m EXCEPT !.counters = Inc(@, series, delta),
                  !.lastSeen = Put(@, key, value)]

\* applyDelta with the counter set to the value instead of advanced by the delta
applyDelta_Overwrite(m, key, series, value) ==
    LET lastValue == Get(m.lastSeen, key)
        delta == value - lastValue
    IN  [m EXCEPT !.counters = IF delta > 0 THEN Put(@, series, value) ELSE @,
                  !.lastSeen = Put(@, key, value)]

\* applyDelta with the stored value kept when the delta is not positive
applyDelta_KeepLast(m, key, series, value) ==
    LET lastValue == Get(m.lastSeen, key)
        delta == value - lastValue
    IN  [m EXCEPT !.counters = IF delta > 0 THEN Inc(@, series, delta) ELSE @,
                  !.lastSeen = IF delta > 0 THEN Put(@, key, value) ELSE @]

\* the block every Set*/Update* method repeats for one key:
\*   lastValue := m.lastSeen[key]; delta := value - lastValue
\*   if delta > 0 { counter.WithLabelValues(...).Add(delta) }
\*   m.lastSeen[key] = value
applyDelta(m, key, series, value) ==
    LET lastValue == Get(m.lastSeen, key)
        delta == value - lastValue
    IN  [m EXCEPT !.counters = IF delta > 0 THEN Inc(@, series, delta) ELSE @,
                  !.lastSeen = Put(@, key, value)]

SetConnections(m, count) ==
    applyDelta(m, "connections", <<"squid_connections_total", <<>>>>, count)

SetRequestDuration(m, interval, count) ==
    applyDelta(m, makeKey(<<"duration", interval>>),
               <<"squid_request_duration_seconds_total", <<interval>>>>, count)

SetCacheStatus(m, status, count) ==
    applyDelta(m, makeKey(<<"cache", status>>),
               <<"squid_cache_status_total", <<status>>>>, count)

SetHTTPResponse(m, code, category, count) ==
    applyDelta(m, makeKey(<<"http", code, category>>),
               <<"squid_http_responses_total", <<code, category>>>>, count)

\* a Go range over a map whose iterations touch distinct keys: the order
\* does not matter, so the fold takes the keys in any one order.
\* op(acc, k) is applied once for every key of the set.
RECURSIVE FoldAllCat(_, _, _, _, _)
FoldAllCat(m, host, port, responsesByCategory, todo) ==
    IF todo = {} THEN m
    ELSE LET category == CHOOSE c \in todo : TRUE
         IN  FoldAllCat(
                applyDelta(m, makeKey(<<"all_http_cat", host, port, category>>),
                           <<"squid_all_domains_http_responses_total",
                             <<host, port, category>>>>,
                           responsesByCategory[category]),
                host, port, responsesByCategory, todo \ {category})

UpdateAllDomains(m, host, port, requests, bytesIn, bytesOut, responsesByCategory) ==
    LET m1 == applyDelta(m, makeKey(<<"all_req", host, port>>),
                         <<"squid_all_domains_requests_total", <<host, port>>>>,
                         requests)
        m2 == applyDelta(m1, makeKey(<<"all_bytes_in", host, port>>),
                         <<"squid_all_domains_bytes_total", <<host, port, "in">>>>,
                         bytesIn)
        m3 == applyDelta(m2, makeKey(<<"all_bytes_out", host, port>>),
                         <<"squid_all_domains_bytes_total", <<host, port, "out">>>>,
                         bytesOut)
    IN  FoldAllCat(m3, host, port, responsesByCategory, DOMAIN responsesByCategory)

\* customLabels[key] of a Go map[string]string: "" for a missing key
LabelGet(customLabels, key) ==
    IF key \in DOMAIN customLabels THEN customLabels[key] ELSE ""

\* the custom label values with the keys a rule has no value for left out
CustomValuesOf_Present(keys, customLabels) ==
    LET Present(k) == k \in DOMAIN customLabels
        present == SelectSeq(keys, Present)
    IN  [i \in 1..Len(present) |-> customLabels[present[i]]]

\* for _, key := range m.customLabelKeys { values = append(values, customLabels[key]) }
CustomValuesOf(keys, customLabels) ==
    [i \in 1..Len(keys) |-> LabelGet(customLabels, keys[i])]

\* the custom label values, in the order of customLabelKeys
CustomValues(customLabels) == CustomValuesOf(customLabelKeys, customLabels)

\* Metrics.buildLabelValues
buildLabelValues(host, port, customLabels) ==
    <<host, port>> \o CustomValues(customLabels)

\* the label names NewMetrics registers the monitored-domain metrics with
monitoredLabels(keys) == <<"host", "port">> \o keys

monitoredHTTPLabels(keys) == <<"host", "port", "code", "category">> \o keys

monitoredBytesLabels(keys) == <<"host", "port", "direction">> \o keys

\* the label values UpdateMonitoredDomain passes to WithLabelValues for a
\* Metrics made with keys: baseLabels, bytesInLabels and httpLabels
LabelVectors(keys, host, port, customLabels) ==
    [labels |-> customLabels,
     base |-> <<host, port>> \o CustomValuesOf(keys, customLabels),
     bytes |-> <<host, port, "in">> \o CustomValuesOf(keys, customLabels),
     http |-> <<host, port, "200", "2xx">> \o CustomValuesOf(keys, customLabels)]

RECURSIVE FoldMonCode(_, _, _, _, _, _)
FoldMonCode(m, host, port, customLabels, responsesByCode, todo) ==
    IF todo = {} THEN m
    ELSE LET cc == CHOOSE c \in todo : TRUE
         IN  FoldMonCode(
                applyDelta(m, makeKey(<<"mon_http", host, port, cc[1], cc[2]>>),
                           <<"squid_monitored_domains_http_responses_total",
                             <<host, port, cc[1], cc[2]>> \o CustomValues(customLabels)>>,
                           responsesByCode[cc]),
                host, port, customLabels, responsesByCode, todo \ {cc})

\* gauge.WithLabelValues(labels...).Set(v)
SetGauge(m, name, labels, v) == [m EXCEPT !.gauges = Put(@, <<name, labels>>, v)]

\* Metrics.UpdateMonitoredDomain.  avgDuration is the pair <<sum, n>> and the
\* cache hit ratio the pair <<hits, hits + misses>>: the exact quotients.
UpdateMonitoredDomain(m, host, port, customLabels, requests, bytesIn, bytesOut, responsesByCode, avgDuration, p50Duration, p90Duration, p95Duration, p99Duration, cacheHits, cacheMisses) ==
    LET baseLabels == buildLabelValues(host, port, customLabels)
        m1 == applyDelta(m, makeKey(<<"mon_req", host, port>>),
                         <<"squid_monitored_domains_requests_total", baseLabels>>,
                         requests)
        m2 == applyDelta(m1, makeKey(<<"mon_bytes_in", host, port>>),
                         <<"squid_monitored_domains_bytes_total",
                           <<host, port, "in">> \o CustomValues(customLabels)>>,
                         bytesIn)
        m3 == applyDelta(m2, makeKey(<<"mon_bytes_out", host, port>>),
                         <<"squid_monitored_domains_bytes_total",
                           <<host, port, "out">> \o CustomValues(customLabels)>>,
                         bytesOut)
        m4 == FoldMonCode(m3, host, port, customLabels, responsesByCode,
                          DOMAIN responsesByCode)
        m5 == SetGauge(m4, "squid_monitored_domains_duration_seconds_avg",
                       baseLabels, avgDuration)
        m6 == SetGauge(m5, "squid_monitored_domains_duration_seconds_p50",
                       baseLabels, p50Duration)
        m7 == SetGauge(m6, "squid_monitored_domains_duration_seconds_p90",
                       baseLabels, p90Duration)
        m8 == SetGauge(m7, "squid_monitored_domains_duration_seconds_p95",
                       baseLabels, p95Duration)
        m9 == SetGauge(m8, "squid_monitored_domains_duration_seconds_p99",
                       baseLabels, p99Duration)
        totalCache == cacheHits + cacheMisses
    IN  IF totalCache > 0
        THEN SetGauge(m9, "squid_monitored_domains_cache_hit_ratio",
                      baseLabels, <<cacheHits, totalCache>>)
        ELSE m9

(***************************************************************************)
(* internal/parser: percentiles and Parser.updateMetrics.                  *)
(***************************************************************************)
\* sort.Float64s, as an insertion sort
RECURSIVE InsertSorted(_, _)
InsertSorted(sorted, v) ==
    IF Len(sorted) = 0 THEN <<v>>
    ELSE IF v <= Head(sorted) THEN <<v>> \o sorted
    ELSE <<Head(sorted)>> \o InsertSorted(Tail(sorted), v)

RECURSIVE SortAsc(_)
SortAsc(s) == IF Len(s) = 0 THEN <<>> ELSE InsertSorted(SortAsc(Tail(s)), Head(s))

\* calculatePercentile that indexes the slice it was given, unsorted
calculatePercentile_Unsorted(durations, percent) ==
    IF Len(durations) = 0 THEN 0
    ELSE durations[Min((Len(durations) * percent) \div 100, Len(durations) - 1) + 1]

\* calculatePercentile; the percentile is given in percent, so that
\* int(float64(n) * p) is (n * percent) \div 100
calculatePercentile(durations, percent) ==
    IF Len(durations) = 0 THEN 0
    ELSE LET sorted == SortAsc(durations)
             index == (Len(sorted) * percent) \div 100
         IN  sorted[(IF index >= Len(sorted) THEN Len(sorted) - 1 ELSE index) + 1]

RECURSIVE SumSeq(_)
SumSeq(s) == IF Len(s) = 0 THEN 0 ELSE Head(s) + SumSeq(Tail(s))

RECURSIVE FoldDurations(_, _, _)
FoldDurations(m, counts, todo) ==
    IF todo = {} THEN m
    ELSE LET interval == CHOOSE k \in todo : TRUE
         IN  FoldDurations(SetRequestDuration(m, interval, counts[interval]),
                           counts, todo \ {interval})

RECURSIVE FoldCache(_, _, _)
FoldCache(m, counts, todo) ==
    IF todo = {} THEN m
    ELSE LET status == CHOOSE k \in todo : TRUE
         IN  FoldCache(SetCacheStatus(m, status, counts[status]),
                       counts, todo \ {status})

RECURSIVE FoldHTTP(_, _, _)
FoldHTTP(m, counts, todo) ==
    IF todo = {} THEN m
    ELSE LET cc == CHOOSE k \in todo : TRUE
         IN  FoldHTTP(SetHTTPResponse(m, cc[1], cc[2], counts[cc]),
                      counts, todo \ {cc})

\* the global part of updateMetrics
UpdateGlobal(m, stats) ==
    LET m1 == SetConnections(m, stats.Connections)
        m2 == FoldDurations(m1, stats.RequestDurations, DOMAIN stats.RequestDurations)
        m3 == FoldCache(m2, stats.CacheStatuses, DOMAIN stats.CacheStatuses)
    IN  FoldHTTP(m3, stats.HTTPResponses, DOMAIN stats.HTTPResponses)

\* the sum of two category maps (otherResponsesByCategory[category] += count)
AddMaps(a, b) == [k \in DOMAIN a \cup DOMAIN b |-> Get(a, k) + Get(b, k)]

NoOther == [Requests |-> 0, BytesIn |-> 0, BytesOut |-> 0, ByCategory |-> EmptyMap]

\* host + ":" + port
domainKey(host, port) == host \o ":" \o port

\* Admit that looks at the bound before it looks for the key
Admit_CapFirst(seen, key, trackAll, maxDomains) ==
    IF ~trackAll THEN [seen |-> seen, shouldTrack |-> FALSE, isUntracked |-> FALSE]
    ELSE IF Cardinality(seen) >= maxDomains /\ maxDomains > 0
    THEN [seen |-> seen, shouldTrack |-> FALSE, isUntracked |-> TRUE]
    ELSE IF key \in seen
    THEN [seen |-> seen, shouldTrack |-> TRUE, isUntracked |-> FALSE]
    ELSE IF Cardinality(seen) < maxDomains
    THEN [seen |-> seen \cup {key}, shouldTrack |-> TRUE, isUntracked |-> FALSE]
    ELSE [seen |-> seen, shouldTrack |-> FALSE, isUntracked |-> TRUE]

\* Admit with the bound compared by <= instead of <
Admit_OffByOne(seen, key, trackAll, maxDomains) ==
    IF ~trackAll THEN [seen |-> seen, shouldTrack |-> FALSE, isUntracked |-> FALSE]
    ELSE IF key \in seen
    THEN [seen |-> seen, shouldTrack |-> TRUE, isUntracked |-> FALSE]
    ELSE IF Cardinality(seen) <= maxDomains
    THEN [seen |-> seen \cup {key}, shouldTrack |-> TRUE, isUntracked |-> FALSE]
    ELSE [seen |-> seen, shouldTrack |-> FALSE, isUntracked |-> TRUE]

\* Admit that does not look at track_all_domains
Admit_NoSwitch(seen, key, trackAll, maxDomains) ==
    IF key \in seen
    THEN [seen |-> seen, shouldTrack |-> TRUE, isUntracked |-> FALSE]
    ELSE IF Cardinality(seen) < maxDomains
    THEN [seen |-> seen \cup {key}, shouldTrack |-> TRUE, isUntracked |-> FALSE]
    ELSE [seen |-> seen, shouldTrack |-> FALSE, isUntracked |-> TRUE]

\* the all-domains admission of one accumulator: [seen, shouldTrack, isUntracked]
Admit(seen, key, trackAll, maxDomains) ==
    IF ~trackAll THEN [seen |-> seen, shouldTrack |-> FALSE, isUntracked |-> FALSE]
    ELSE IF key \in seen
    THEN [seen |-> seen, shouldTrack |-> TRUE, isUntracked |-> FALSE]
    ELSE IF Cardinality(seen) < maxDomains
    THEN [seen |-> seen \cup {key}, shouldTrack |-> TRUE, isUntracked |-> FALSE]
    ELSE [seen |-> seen, shouldTrack |-> FALSE, isUntracked |-> TRUE]

\* the monitored branch of updateMetrics for one accumulator
UpdateMonitored(m, host, port, data) ==
    IF IsMonitored(host, port)
    THEN UpdateMonitoredDomain(m, host, port, MonitoredLabels(host, port),
            data.Requests, data.BytesIn, data.BytesOut, data.ResponsesByCode,
            IF Len(data.Durations) > 0
            THEN <<SumSeq(data.Durations), Len(data.Durations)>> ELSE <<0, 1>>,
            calculatePercentile(data.Durations, 50),
            calculatePercentile(data.Durations, 90),
            calculatePercentile(data.Durations, 95),
            calculatePercentile(data.Durations, 99),
            data.CacheHits, data.CacheMisses)
    ELSE m

\* the calls one accumulator of the domain loop makes
DomainCalls(host, port, data, tracked, monitored) ==
    (IF tracked
     THEN {[fn |-> "UpdateAllDomains", host |-> host, port |-> port,
            requests |-> data.Requests]}
     ELSE {})
    \cup
    (IF monitored
     THEN {[fn |-> "UpdateMonitoredDomain", host |-> host, port |-> port,
            requests |-> data.Requests]}
     ELSE {})

\* DomainStep with the monitored branch inside the branch of the tracked
\* domains: a monitored domain beyond the cap gets no extended metrics
DomainStep_CapMonitored(st, host, port, data, trackAll, maxDomains) ==
    LET adm == Admit(st.seen, domainKey(host, port), trackAll, maxDomains)
        mAll == IF adm.shouldTrack
                THEN UpdateMonitored(
                        UpdateAllDomains(st.m, host, port, data.Requests,
                                         data.BytesIn, data.BytesOut,
                                         data.ResponsesByCategory),
                        host, port, data)
                ELSE st.m
        other == IF adm.isUntracked
                 THEN [Requests |-> st.other.Requests + data.Requests,
                       BytesIn |-> st.other.BytesIn + data.BytesIn,
                       BytesOut |-> st.other.BytesOut + data.BytesOut,
                       ByCategory |-> AddMaps(st.other.ByCategory,
                                              data.ResponsesByCategory)]
                 ELSE st.other
    IN  [m |-> mAll,
         seen |-> adm.seen,
         other |-> other,
         calls |-> st.calls \cup DomainCalls(host, port, data, adm.shouldTrack,
                                             adm.shouldTrack /\ IsMonitored(host, port))]

\* one iteration of the domain loop of updateMetrics, for the accumulator
\* data of (host, port); st = [m, seen, other, calls]
DomainStep(st, host, port, data, trackAll, maxDomains) ==
    LET adm == Admit(st.seen, domainKey(host, port), trackAll, maxDomains)
        mAll == IF adm.shouldTrack
                THEN UpdateAllDomains(st.m, host, port, data.Requests,
                                      data.BytesIn, data.BytesOut,
                                      data.ResponsesByCategory)
                ELSE st.m
        other == IF adm.isUntracked
                 THEN [Requests |-> st.other.Requests + data.Requests,
                       BytesIn |-> st.other.BytesIn + data.BytesIn,
                       BytesOut |-> st.other.BytesOut + data.BytesOut,
                       ByCategory |-> AddMaps(st.other.ByCategory,
                                              data.ResponsesByCategory)]
                 ELSE st.other
    IN  [m |-> UpdateMonitored(mAll, host, port, data),
         seen |-> adm.seen,
         other |-> other,
         calls |-> st.calls \cup DomainCalls(host, port, data, adm.shouldTrack,
                                             IsMonitored(host, port))]

\* the domain loop over the accumulators, in the order the range over
\* stats.DomainData yields them
RECURSIVE DomainLoop(_, _, _, _, _)
DomainLoop(st, stats, order, trackAll, maxDomains) ==
    IF Len(order) = 0 THEN st
    ELSE DomainLoop(DomainStep(st, Head(order)[1], Head(order)[2],
                               stats.DomainData[Head(order)], trackAll, maxDomains),
                    stats, Tail(order), trackAll, maxDomains)

\* Parser.updateMetrics: [m, seen, other, calls]
updateMetrics(m, seen, stats, order, trackAll, maxDomains) ==
    LET st == DomainLoop([m |-> UpdateGlobal(m, stats), seen |-> seen,
                          other |-> NoOther, calls |-> {}],
                         stats, order, trackAll, maxDomains)
    IN  IF trackAll /\ st.other.Requests > 0
        THEN [st EXCEPT
                !.m = UpdateAllDomains(@, "__other__", "0", st.other.Requests,
                                       st.other.BytesIn, st.other.BytesOut,
                                       st.other.ByCategory),
                !.calls = @ \cup {[fn |-> "UpdateAllDomains", host |-> "__other__",
                                   port |-> "0", requests |-> st.other.Requests]}]
        ELSE st

\* the orders in which a range over a map with the given keys can run
Orders(keys) ==
    {o \in [1..Cardinality(keys) -> keys] : \A i, j \in DOMAIN o : i # j => o[i] # o[j]}

(***************************************************************************)
(* bufio.Scanner with the ScanLines split function over the opened log.    *)
(* sc = [start, end, off, eof, err]: start and end are the indexes into    *)
(* the scanner's buffer, off is the offset of the file handle (what        *)
(* file.Seek(0, io.SeekCurrent) returns), eof says that a Read returned    *)
(* io.EOF, err that the scanner stopped with ErrTooLong.  The buffer holds *)
(* the bytes of the file before off.                                       *)
(***************************************************************************)
NewScanner(pos) == [start |-> 0, end |-> 0, off |-> pos, eof |-> FALSE, err |-> FALSE]

\* the unread bytes of the buffer
Buffered(sc, content) == SubSeq(content, sc.off - (sc.end - sc.start) + 1, sc.off)

\* bufio.ScanLines: [advance, has, token]
ScanLines(data, atEOF) ==
    IF atEOF /\ Len(data) = 0 THEN [advance |-> 0, has |-> FALSE, token |-> ""]
    ELSE LET i == IndexFrom(data, "\n", 1)
         IN  IF i > 0
             THEN [advance |-> i, has |-> TRUE, token |-> SubSeq(data, 1, i - 1)]
             ELSE IF atEOF
             THEN [advance |-> Len(data), has |-> TRUE, token |-> data]
             ELSE [advance |-> 0, has |-> FALSE, token |-> ""]

\* Scanner.Scan: [sc, has, token]
RECURSIVE Scan(_, _)
Scan(sc, content) ==
    LET sp == ScanLines(Buffered(sc, content), sc.eof)
    IN  IF (sc.end > sc.start \/ sc.eof) /\ sp.has
        THEN [sc |-> [sc EXCEPT !.start = @ + sp.advance],
              has |-> TRUE, token |-> sp.token]
        ELSE IF sc.eof
        THEN [sc |-> [sc EXCEPT !.start = 0, !.end = 0], has |-> FALSE, token |-> ""]
        ELSE
        LET shifted == IF sc.start > 0
                          /\ (sc.end = maxScanTokenSize
                              \/ sc.start > maxScanTokenSize \div 2)
                       THEN [sc EXCEPT !.end = sc.end - sc.start, !.start = 0]
                       ELSE sc
        IN  IF shifted.end = maxScanTokenSize
            THEN [sc |-> [shifted EXCEPT !.err = TRUE], has |-> FALSE, token |-> ""]
            ELSE
            LET n == Min(maxScanTokenSize - shifted.end,
                         Max(0, Len(content) - shifted.off))
            IN  IF n = 0
                THEN Scan([shifted EXCEPT !.eof = TRUE], content)
                ELSE Scan([shifted EXCEPT !.end = @ + n, !.off = @ + n], content)

(***************************************************************************)
(* The state.                                                              *)
(***************************************************************************)
VARIABLES
    files,           \* inode -> content of that file
    logInode,        \* the inode the log path refers to
    appended,        \* lines the log producer has written
    posFile,         \* the position file: [exists, Position, Inode, written]
    faults,          \* position saves that failed
    cfg,             \* Config.Global: [TrackAllDomains, MaxDomains]
    tracker,         \* Tracker.position: [Position, Inode]
    metrics,         \* the Metrics: [lastSeen, counters, gauges]
    allDomainsSeen,  \* Parser.allDomainsSeen
    pc,              \* where Parser.Parse stands
    run,             \* the locals of the Parse in progress
    calls,           \* the Update*/Set* calls of the latest update
    hist,            \* history of the behaviour, to state the properties
    main,            \* func main: its goroutines, the HTTP server, the ticker
    save,            \* a Tracker.Save in progress, system call by system call
    retry,           \* the legacy collector's writeMetricsWithRetry and its main
    eval,            \* a call of a pure function: its arguments and its result
    locks,           \* the mutexes and the goroutines that take them
    scrape           \* an updateMetrics call in progress and the latest scrape

vars == <<files, logInode, appended, posFile, faults, cfg, tracker, metrics,
          allDomainsSeen, pc, run, calls, hist, main, save, retry, eval, locks, scrape>>

\* the lines the log producer writes: a GET to a monitored domain, a
\* CONNECT to another domain, a line with a malformed result code, and a
\* line that is longer than the scanner's buffer
LogLines ==
    { "1 150 TCP_MISS/200 9 GET http://a.io/",
      "1 5 TCP_TUNNEL/200 7 CONNECT b.io:443",
      "1 5 NONE 7 GET a.io",
      "1 5 TCP_MISS/200 7 GET http://a.io/0123456789abcdef" }

\* a file of the position directory is [exists, Position, Inode, written]:
\* the record its content was marshalled from, and how many of the
\* WriteChunks pieces of the JSON text are in the file.  Fewer than all is
\* a text that json.Unmarshal rejects.
NoPosition == [exists |-> FALSE, Position |-> 0, Inode |-> 0, written |-> 0]

IdleRun ==
    [fd |-> 0, currentInode |-> 0, stats |-> NewStats, lineCount |-> 0,
     sc |-> NewScanner(0),
     \* history of the run
     loaded |-> NoPosition, startPos |-> 0, rotated |-> FALSE, saveFailed |-> FALSE]

NewHist ==
    [accepted |-> 0,       \* lines parseLine accepted in the completed runs of this process
     overflow |-> 0,       \* requests of accumulators that were not admitted, this process
     clean |-> TRUE,       \* no rotation, truncation, failed save or failed run so far
     unmodified |-> FALSE, \* a run of this process completed and the log is as it left it
     hasFinal |-> FALSE,   \* some run's final save has persisted a position
     lastFinal |-> 0,      \* the offset the latest final save persisted
     scanned |-> {},       \* <<inode, offset>> of the bytes some run has read
     rescanned |-> FALSE,  \* some byte was read by two runs
     direct |-> 0,         \* direct calls of the delta engine so far
     failed |-> "",        \* where the latest Parse returned an error: open, stat, scan
     failedLines |-> 0,    \* lines that run had accepted when it returned the error
     before |-> NewMetrics] \* the metrics when the run in progress or that failed run began

\* the scan history matters only while the behaviour is clean
Clean(h) ==
    IF h.clean THEN h
    ELSE [h EXCEPT !.hasFinal = FALSE, !.lastFinal = 0,
                   !.scanned = {}, !.rescanned = FALSE]

\* main before its first statement
NewMain ==
    [pc |-> "start",       \* where the main goroutine stands
     config |-> "none",    \* the Config in use: none yet, loaded, or the defaults
     loadErr |-> "",       \* the error LoadConfig returned, "" for nil
     initial |-> "none",   \* the goroutine of the initial parse
     server |-> "off",     \* the HTTP server
     final |-> "none",     \* the parse of the shutdown branch
     ticks |-> 0,          \* ticks the main loop has served
     parses |-> 0]         \* calls of Parse so far

\* writeMetricsWithRetry has not been called
NoRetry == [pc |-> "idle"]

\* no pure function has been called
NoEval == [fn |-> "none"]

\* what a scrape of /metrics reads of the Metrics: the counters and the gauges
View(m) == [counters |-> m.counters, gauges |-> m.gauges]

\* no updateMetrics call is in progress and nothing was scraped: pc, the
\* keys the loops of updateMetrics have still to range over, its
\* otherRequests.. locals, the Metrics and the seen set it began with, the
\* latest scrape, and the views the Metrics had between the runs
NoScrape ==
    [pc |-> "idle", durations |-> {}, cache |-> {}, http |-> {}, domains |-> {},
     other |-> NoOther, start |-> [m |-> NewMetrics, seen |-> {}],
     snapshot |-> View(NewMetrics), taken |-> "never", whole |-> {View(NewMetrics)}]

\* the three mutexes: Metrics.mu, Parser.mu, Tracker.mu
Mutexes == {"m.mu", "p.mu", "t.mu"}

\* the goroutines that call Parse (the initial-parse goroutine and main)
\* and the one that serves a scrape
Goroutines == {"initial", "main", "scrape"}

\* no mutex is held and no goroutine has started
NoLocks ==
    [pc |-> "idle",
     w |-> [x \in Mutexes |-> "none"],        \* the goroutine that holds Lock
     r |-> [x \in Mutexes |-> {}],            \* the goroutines that hold RLock
     at |-> [g \in Goroutines |-> [op |-> 1, ip |-> 1, runs |-> 0]]]

\* no Save in progress and no temporary file
NoSave == [pc |-> "idle", pos |-> 0, inode |-> 0, tmp |-> NoPosition,
           read |-> NoPosition, text |-> "", op |-> "none", ok |-> FALSE]

Init ==
    /\ files = [i \in 1..MaxInode |-> ""]
    /\ logInode = 1
    /\ appended = 0
    /\ posFile = NoPosition
    /\ faults = 0
    /\ cfg \in [TrackAllDomains : BOOLEAN, MaxDomains : 0..MaxDomainsBound]
    /\ (cfg.TrackAllDomains \/ cfg.MaxDomains = MaxDomainsBound)
    /\ tracker = [Position |-> 0, Inode |-> 0]
    /\ metrics = NewMetrics
    /\ allDomainsSeen = {}
    /\ pc = "idle"
    /\ run = IdleRun
    /\ calls = {}
    /\ hist = NewHist
    /\ main = NewMain
    /\ save = NoSave
    /\ retry = NoRetry
    /\ eval = NoEval
    /\ locks = NoLocks
    /\ scrape = NoScrape

(***************************************************************************)
(* The environment: the log producer, logrotate, and process restarts.     *)
(***************************************************************************)
AppendLine(line) ==
    /\ pc = "idle"
    /\ appended < MaxAppends
    /\ files' = [files EXCEPT ![logInode] = @ \o line \o "\n"]
    /\ appended' = appended + 1
    /\ hist' = Clean([hist EXCEPT !.unmodified = FALSE])
    /\ UNCHANGED <<logInode, posFile, faults, cfg, main, save, retry, eval, locks, scrape, tracker, metrics,
                   allDomainsSeen, pc, run, calls>>

\* the log path is given a new, empty file; an open handle keeps the old one
Rotate ==
    /\ pc \in {"idle", "opened"}
    /\ logInode < MaxInode
    /\ logInode' = logInode + 1
    /\ run' = IF pc = "opened" THEN [run EXCEPT !.rotated = TRUE] ELSE run
    /\ hist' = Clean([hist EXCEPT !.unmodified = FALSE, !.clean = FALSE])
    /\ UNCHANGED <<files, appended, posFile, faults, cfg, main, save, retry, eval, locks, scrape, tracker, metrics,
                   allDomainsSeen, pc, calls>>

\* the log is truncated in place (copytruncate)
Truncate ==
    /\ pc = "idle"
    /\ files[logInode] # ""
    /\ files' = [files EXCEPT ![logInode] = ""]
    /\ hist' = Clean([hist EXCEPT !.unmodified = FALSE, !.clean = FALSE])
    /\ UNCHANGED <<logInode, appended, posFile, faults, cfg, main, save, retry, eval, locks, scrape, tracker, metrics,
                   allDomainsSeen, pc, run, calls>>

\* the process is stopped and started again: NewMetrics, NewParser, NewTracker
Restart ==
    /\ pc = "idle"
    /\ tracker' = [Position |-> 0, Inode |-> 0]
    /\ metrics' = NewMetrics
    /\ allDomainsSeen' = {}
    /\ calls' = {}
    /\ hist' = Clean([hist EXCEPT !.accepted = 0, !.overflow = 0, !.unmodified = FALSE,
                                  !.failed = "", !.failedLines = 0,
                                  !.before = NewMetrics])
    /\ UNCHANGED <<files, logInode, appended, posFile, faults, cfg, main, save, retry, eval, locks, scrape, pc, run>>

(***************************************************************************)
(* internal/position: Tracker.                                             *)
(***************************************************************************)
\* Load that never reads the file
Load_KeepMemory(t, pf) == t

\* Tracker.Load: a missing file leaves t.position as it is, and so does a
\* text that json.Unmarshal rejects (an error is returned then)
Load(t, pf) ==
    IF pf.exists /\ pf.written = WriteChunks
    THEN [Position |-> pf.Position, Inode |-> pf.Inode]
    ELSE t

\* Tracker.Save: t.position is assigned first; the file at the final path
\* is replaced only if no step of the write fails
SaveTracker(pos, inode) == [Position |-> pos, Inode |-> inode]

SaveFile(pf, pos, inode, ok) ==
    IF ok THEN [exists |-> TRUE, Position |-> pos, Inode |-> inode,
                written |-> WriteChunks]
    ELSE pf

\* the outcomes of one Save: it may fail while the fault budget lasts
SaveOutcomes == IF faults < MaxFaults THEN {TRUE, FALSE} ELSE {TRUE}

(***************************************************************************)
(* Parser.Parse, step by step.                                             *)
(***************************************************************************)
\* positionTracker.Load() and os.Open(p.logFile)
ParseOpen ==
    /\ pc = "idle"
    /\ tracker' = Load(tracker, posFile)
    /\ run' = [IdleRun EXCEPT !.fd = logInode, !.loaded = posFile]
    /\ hist' = [hist EXCEPT !.failed = "", !.failedLines = 0, !.before = metrics]
    /\ pc' = "opened"
    /\ UNCHANGED <<files, logInode, appended, posFile, faults, cfg, main, save, retry, eval, locks, scrape, metrics,
                   allDomainsSeen, calls>>

\* positionTracker.Load(), then os.Open(p.logFile) fails: Parse returns the error
OpenFail ==
    /\ pc = "idle"
    /\ faults < MaxFaults
    /\ faults' = faults + 1
    /\ tracker' = Load(tracker, posFile)
    /\ hist' = Clean([hist EXCEPT !.failed = "open", !.failedLines = 0,
                                  !.before = metrics,
                                  !.clean = FALSE, !.unmodified = FALSE])
    /\ UNCHANGED <<files, logInode, appended, posFile, cfg, main, save, retry, eval, locks, scrape, metrics,
                   allDomainsSeen, pc, run, calls>>

\* GetFileInode(p.logFile) fails: Parse returns the error
StatFail ==
    /\ pc = "opened"
    /\ faults < MaxFaults
    /\ faults' = faults + 1
    /\ hist' = Clean([hist EXCEPT !.failed = "stat", !.clean = FALSE,
                                  !.unmodified = FALSE])
    /\ run' = IdleRun
    /\ pc' = "idle"
    /\ UNCHANGED <<files, logInode, appended, posFile, cfg, main, save, retry, eval, locks, scrape, tracker,
                   metrics, allDomainsSeen, calls>>

\* SeekPos without the rotation check
SeekPos_NoRotation(t, currentInode) == t.Position

\* the offset Parse seeks to: 0 after a rotation, else the tracked offset
SeekPos(t, currentInode) ==
    IF currentInode # t.Inode /\ t.Inode # 0 THEN 0 ELSE t.Position

\* GetFileInode(p.logFile), GetPosition, the rotation check and the seek
ParseStat ==
    /\ pc = "opened"
    /\ LET lastPos == SeekPos(tracker, logInode)
       IN  run' = [run EXCEPT !.currentInode = logInode,
                              !.sc = NewScanner(lastPos),
                              !.startPos = lastPos]
    /\ pc' = "scan"
    /\ UNCHANGED <<files, logInode, appended, posFile, faults, cfg, main, save, retry, eval, locks, scrape, tracker,
                   metrics, allDomainsSeen, calls, hist>>

\* the bytes a Scan call read from the file: <<inode, offset>> pairs
BytesRead(fd, from, to) == {<<fd, o>> : o \in from..(to - 1)}

\* the body of the scan loop for the token of r, parsed as pl: the line
\* count, and every CheckpointLines accepted lines a save of the position
ScanLineBody(r, pl, lineCount, checkpoint) ==
    \E ok \in (IF checkpoint THEN SaveOutcomes ELSE {TRUE}) :
        /\ tracker' = IF checkpoint
                      THEN SaveTracker(r.sc.off, run.currentInode)
                      ELSE tracker
        /\ posFile' = IF checkpoint
                      THEN SaveFile(posFile, r.sc.off, run.currentInode, ok)
                      ELSE posFile
        /\ faults' = IF ok THEN faults ELSE faults + 1
        /\ run' = [run EXCEPT !.sc = r.sc, !.stats = pl.stats,
                              !.lineCount = lineCount,
                              !.saveFailed = @ \/ ~ok]
        /\ hist' = Clean([hist EXCEPT
                      !.scanned = @ \cup BytesRead(run.fd, run.sc.off, r.sc.off),
                      !.rescanned = @ \/ (BytesRead(run.fd, run.sc.off, r.sc.off)
                                             \cap hist.scanned # {}),
                      !.clean = @ /\ ok])

\* lineCount++ for an accepted line, and the checkpoint condition
ScanLineCount(r, pl, lineCount) ==
    ScanLineBody(r, pl, lineCount, ~pl.err /\ lineCount % CheckpointLines = 0)

\* the scanned token is parsed; a rejected line is skipped
ScanLineParse(r, pl) ==
    ScanLineCount(r, pl, IF pl.err THEN run.lineCount ELSE run.lineCount + 1)

\* one iteration of the scan loop: a line is scanned and parsed
ScanLineScanned(r) ==
    /\ r.has
    /\ ScanLineParse(r, parseLine(r.token, run.stats))

\* Parser.Parse, the scan loop: scanner.Scan() returned true
ScanLine ==
    /\ pc = "scan"
    /\ ScanLineScanned(Scan(run.sc, files[run.fd]))
    /\ UNCHANGED <<files, logInode, appended, cfg, main, save, retry, eval, locks, scrape, metrics, allDomainsSeen, pc, calls>>

\* scanner.Scan() returns false and scanner.Err() is nil: the scan is over
ScanEnd ==
    /\ pc = "scan"
    /\ LET r == Scan(run.sc, files[run.fd])
           read == BytesRead(run.fd, run.sc.off, r.sc.off)
       IN  /\ ~r.has
           /\ ~r.sc.err
           /\ run' = [run EXCEPT !.sc = r.sc]
           /\ hist' = Clean([hist EXCEPT
                         !.scanned = @ \cup read,
                         !.rescanned = @ \/ (read \cap hist.scanned # {})])
    /\ pc' = "update"
    /\ UNCHANGED <<files, logInode, appended, posFile, faults, cfg, main, save, retry, eval, locks, scrape, tracker,
                   metrics, allDomainsSeen, calls>>

\* the metrics after a scanner error, had Parse published the accumulator
\* before it looked at scanner.Err()
ScanErrorMetrics_Published(m, stats) ==
    updateMetrics(m, allDomainsSeen, stats,
                  CHOOSE order \in Orders(DOMAIN stats.DomainData) : TRUE,
                  cfg.TrackAllDomains, cfg.MaxDomains).m

\* the metrics after a scanner error: Parse returns above p.updateMetrics
ScanErrorMetrics(m, stats) == m

\* scanner.Err() is not nil: Parse returns the error
ScanFail ==
    /\ pc = "scan"
    /\ LET r == Scan(run.sc, files[run.fd])
           read == BytesRead(run.fd, run.sc.off, r.sc.off)
       IN  /\ ~r.has
           /\ r.sc.err
           /\ hist' = Clean([hist EXCEPT
                         !.scanned = @ \cup read,
                         !.rescanned = @ \/ (read \cap hist.scanned # {}),
                         !.clean = FALSE,
                         !.unmodified = FALSE,
                         !.failed = "scan",
                         !.failedLines = run.lineCount])
    /\ metrics' = ScanErrorMetrics(metrics, run.stats)
    /\ run' = IdleRun
    /\ pc' = "idle"
    /\ UNCHANGED <<files, logInode, appended, posFile, faults, cfg, main, save, retry, eval, locks, scrape, tracker,
                   allDomainsSeen, calls>>

\* p.updateMetrics(stats)
UpdateMetrics ==
    /\ pc = "update"
    /\ \E order \in Orders(DOMAIN run.stats.DomainData) :
         LET r == updateMetrics(metrics, allDomainsSeen, run.stats, order,
                                cfg.TrackAllDomains, cfg.MaxDomains)
         IN  /\ metrics' = r.m
             /\ allDomainsSeen' = r.seen
             /\ calls' = r.calls
             /\ hist' = Clean([hist EXCEPT !.overflow = @ + r.other.Requests])
    /\ pc' = "save"
    /\ UNCHANGED <<files, logInode, appended, posFile, faults, cfg, main, save, retry, eval, locks, scrape, tracker, run>>

\* the final save; Parse returns nil whether or not the save succeeds
FinalSave ==
    /\ pc = "save"
    /\ \E ok \in SaveOutcomes :
         /\ tracker' = SaveTracker(run.sc.off, run.currentInode)
         /\ posFile' = SaveFile(posFile, run.sc.off, run.currentInode, ok)
         /\ faults' = IF ok THEN faults ELSE faults + 1
         /\ hist' = Clean([hist EXCEPT
                       !.accepted = @ + run.lineCount,
                       !.unmodified = TRUE,
                       !.clean = @ /\ ok,
                       !.hasFinal = @ \/ ok,
                       !.lastFinal = IF ok THEN run.sc.off ELSE @,
                       !.before = NewMetrics])
    /\ run' = IdleRun
    /\ pc' = "idle"
    /\ UNCHANGED <<files, logInode, appended, cfg, main, save, retry, eval, locks, scrape, metrics, allDomainsSeen, calls>>

Next ==
    \/ \E line \in LogLines : AppendLine(line)
    \/ Rotate
    \/ Truncate
    \/ Restart
    \/ ParseOpen
    \/ ParseStat
    \/ ScanLine
    \/ ScanEnd
    \/ ScanFail
    \/ UpdateMetrics
    \/ FinalSave

Spec == Init /\ [][Next]_vars

(***************************************************************************)
(* Parse over logs given as a whole: every sequence of at most MaxLines    *)
(* lines, well-formed and malformed, the last one with or without its      *)
(* newline.                                                                *)
(***************************************************************************)
\* the lines of the logs: LogLines, a line with too few fields, a result
\* code of three parts, and an empty line
ScanInputLines ==
    LogLines \cup {"1 5 TCP_MISS/200", "1 5 A/B/200 7 GET a.io", ""}

\* the text of the lines ls, each followed by a newline
RECURSIVE JoinLines(_)
JoinLines(ls) ==
    IF ls = <<>> THEN "" ELSE ls[1] \o "\n" \o JoinLines(Tail(ls))

LineSeqs == UNION {[1..n -> ScanInputLines] : n \in 0..MaxLines}

ScanFiles ==
    {JoinLines(ls) : ls \in LineSeqs}
        \cup {JoinLines(SubSeq(ls, 1, Len(ls) - 1)) \o ls[Len(ls)] : ls \in LineSeqs \ {<<>>}}

\* a process that has not run yet, and a log that is one of contents
ScanInitOf(contents) ==
    /\ files \in {[i \in 1..MaxInode |-> IF i = 1 THEN c ELSE ""] : c \in contents}
    /\ logInode = 1
    /\ appended = 0
    /\ posFile = NoPosition
    /\ faults = 0
    /\ cfg = [TrackAllDomains |-> TRUE, MaxDomains |-> MaxDomainsBound]
    /\ tracker = [Position |-> 0, Inode |-> 0]
    /\ metrics = NewMetrics
    /\ allDomainsSeen = {}
    /\ pc = "idle"
    /\ run = IdleRun
    /\ calls = {}
    /\ hist = NewHist
    /\ main = NewMain
    /\ save = NoSave
    /\ retry = NoRetry
    /\ eval = NoEval
    /\ locks = NoLocks
    /\ scrape = NoScrape

ScanInit == ScanInitOf(ScanFiles)

ScanNext ==
    \/ ParseOpen
    \/ ParseStat
    \/ ScanLine
    \/ ScanEnd
    \/ ScanFail
    \/ UpdateMetrics
    \/ FinalSave

ScanSpec == ScanInit /\ [][ScanNext]_vars

\* the lines of the logs of the statistics specification: requests of the
\* monitored a.io with a miss, a hit, a memory hit and a denial, a tunnel to
\* b.io, a proxy-internal URL, an excluded host, a malformed line, and a
\* line that does not fit the scanner's buffer
StatLines ==
    { "1 150 TCP_MISS/200 9 GET http://a.io/",
      "1 5 TCP_HIT/200 7 GET http://a.io/",
      "1 5 TCP_MEM_HIT/200 7 GET http://a.io/",
      "1 5 TCP_DENIED/403 7 GET http://a.io/",
      "1 5 TCP_TUNNEL/200 7 CONNECT b.io:443",
      "1 5 TCP_MISS/200 7 GET cache_object://a.io/info",
      "1 5 TCP_MISS/404 7 GET http://localhost/",
      "1 5 NONE 7 GET a.io",
      "1 5 TCP_MISS/200 7 GET http://a.io/0123456789abcdef" }

StatFiles == {JoinLines(ls) : ls \in UNION {[1..n -> StatLines] : n \in 0..MaxLines}}

StatInit == ScanInitOf(StatFiles)

StatSpec == StatInit /\ [][ScanNext]_vars

(***************************************************************************)
(* Parse with the failures of its environment: the position file holds a   *)
(* text that is not JSON, the log cannot be opened, its inode cannot be     *)
(* read.  The log is only appended to.                                     *)
(***************************************************************************)
\* a position file that exists and that json.Unmarshal rejects
Unparsable(f) == f.exists /\ f.written < WriteChunks

\* the position file is cut short behind the exporter's back
GarblePosition ==
    /\ pc = "idle"
    /\ posFile.exists
    /\ faults < MaxFaults
    /\ faults' = faults + 1
    /\ \E n \in 0..(WriteChunks - 1) : posFile' = [posFile EXCEPT !.written = n]
    /\ hist' = Clean([hist EXCEPT !.clean = FALSE])
    /\ UNCHANGED <<files, logInode, appended, cfg, main, save, retry, eval, locks, scrape, tracker, metrics,
                   allDomainsSeen, pc, run, calls>>

FaultNext ==
    \/ \E line \in LogLines : AppendLine(line)
    \/ GarblePosition
    \/ ParseOpen
    \/ OpenFail
    \/ ParseStat
    \/ StatFail
    \/ ScanLine
    \/ ScanEnd
    \/ ScanFail
    \/ UpdateMetrics
    \/ FinalSave

FaultSpec == Init /\ [][FaultNext]_vars

(***************************************************************************)
(* The delta engine on its own: the exported methods of Metrics called     *)
(* with arbitrary non-negative arguments.  calls holds, for the latest     *)
(* call, the key, the series and the value of every update it asks for.    *)
(***************************************************************************)
Direct(m, updates) ==
    metrics' = m /\ calls' = updates /\ hist' = [hist EXCEPT !.direct = @ + 1]

DirectFrame ==
    UNCHANGED <<files, logInode, appended, posFile, faults, cfg, main, save, retry, eval, locks, scrape, tracker,
                allDomainsSeen, pc, run>>

CallSetConnections ==
    /\ hist.direct < MaxCalls
    /\ DirectFrame
    /\ \E count \in 0..MaxArg :
           Direct(SetConnections(metrics, count),
                  {[key |-> "connections",
                    series |-> <<"squid_connections_total", <<>>>>, value |-> count]})

CallSetRequestDuration ==
    /\ hist.direct < MaxCalls
    /\ DirectFrame
    /\ \E interval \in {"0.1"}, count \in 0..MaxArg :
           Direct(SetRequestDuration(metrics, interval, count),
                  {[key |-> "duration|" \o interval,
                    series |-> <<"squid_request_duration_seconds_total", <<interval>>>>,
                    value |-> count]})

CallSetCacheStatus ==
    /\ hist.direct < MaxCalls
    /\ DirectFrame
    /\ \E status \in {"TCP_MISS"}, count \in 0..MaxArg :
           Direct(SetCacheStatus(metrics, status, count),
                  {[key |-> "cache|" \o status,
                    series |-> <<"squid_cache_status_total", <<status>>>>,
                    value |-> count]})

CallSetHTTPResponse ==
    /\ hist.direct < MaxCalls
    /\ DirectFrame
    /\ \E code \in {"200"}, count \in 0..MaxArg :
           Direct(SetHTTPResponse(metrics, code, categorizeHTTPCode(code), count),
                  {[key |-> "http|" \o code \o "|" \o categorizeHTTPCode(code),
                    series |-> <<"squid_http_responses_total",
                                 <<code, categorizeHTTPCode(code)>>>>,
                    value |-> count]})

CallUpdateAllDomains ==
    /\ hist.direct < MaxCalls
    /\ DirectFrame
    /\ \E hp \in {<<"a.io", "80">>, <<"__other__", "0">>},
          requests \in 0..MaxArg, bytesOut \in {0, MaxArg} :
           LET host == hp[1]
               port == hp[2]
               cats == IF requests > 0 THEN {"2xx"} ELSE {}
               hostPort == host \o "|" \o port
           IN  Direct(UpdateAllDomains(metrics, host, port, requests, 0, bytesOut,
                                       [c \in cats |-> requests]),
                      {[key |-> "all_req|" \o hostPort,
                        series |-> <<"squid_all_domains_requests_total", <<host, port>>>>,
                        value |-> requests],
                       [key |-> "all_bytes_in|" \o hostPort,
                        series |-> <<"squid_all_domains_bytes_total", <<host, port, "in">>>>,
                        value |-> 0],
                       [key |-> "all_bytes_out|" \o hostPort,
                        series |-> <<"squid_all_domains_bytes_total", <<host, port, "out">>>>,
                        value |-> bytesOut]}
                      \cup
                      {[key |-> "all_http_cat|" \o hostPort \o "|" \o c,
                        series |-> <<"squid_all_domains_http_responses_total",
                                     <<host, port, c>>>>,
                        value |-> requests] : c \in cats})

CallUpdateMonitoredDomain ==
    /\ hist.direct < MaxCalls
    /\ DirectFrame
    /\ \E requests \in 0..MaxArg, bytesOut \in {0, MaxArg},
          labels \in {[team |-> "x"], EmptyMap} :
           LET host == "a.io"
               codes == IF requests > 0 THEN {<<"200", "2xx">>} ELSE {}
               port == "80"
               hostPort == host \o "|" \o port
               team == IF labels = EmptyMap THEN "" ELSE "x"
           IN  Direct(UpdateMonitoredDomain(metrics, host, port, labels, requests, 0,
                                            bytesOut, [c \in codes |-> requests],
                                            <<0, 1>>, 0, 0, 0, 0, requests, 0),
                      {[key |-> "mon_req|" \o hostPort,
                        series |-> <<"squid_monitored_domains_requests_total",
                                     <<host, port, team>>>>,
                        value |-> requests],
                       [key |-> "mon_bytes_in|" \o hostPort,
                        series |-> <<"squid_monitored_domains_bytes_total",
                                     <<host, port, "in", team>>>>,
                        value |-> 0],
                       [key |-> "mon_bytes_out|" \o hostPort,
                        series |-> <<"squid_monitored_domains_bytes_total",
                                     <<host, port, "out", team>>>>,
                        value |-> bytesOut]}
                      \cup
                      {[key |-> "mon_http|" \o hostPort \o "|" \o c[1] \o "|" \o c[2],
                        series |-> <<"squid_monitored_domains_http_responses_total",
                                     <<host, port, c[1], c[2], team>>>>,
                        value |-> requests] : c \in codes})

EngineNext ==
    \/ CallSetConnections
    \/ CallSetRequestDuration
    \/ CallSetCacheStatus
    \/ CallSetHTTPResponse
    \/ CallUpdateAllDomains
    \/ CallUpdateMonitoredDomain

EngineInit == Init /\ cfg = [TrackAllDomains |-> TRUE, MaxDomains |-> MaxDomainsBound]

EngineSpec == EngineInit /\ [][EngineNext]_vars

(***************************************************************************)
(* internal/config: LoadConfig, on the configuration files of ConfigFiles. *)
(* A file is [readable, yaml, Type, Fields]: whether os.ReadFile and       *)
(* yaml.Unmarshal succeed, log_format.type and the names under             *)
(* log_format.fields.  An error is its message, nil is "".                 *)
(***************************************************************************)
logFormatPresets == {"squid_native", "squid_combined"}

requiredFields == {"timestamp", "duration", "result_code", "bytes", "method", "url"}

ConfigFiles ==
    {[readable |-> FALSE, yaml |-> FALSE, Type |-> "", Fields |-> {}],
     [readable |-> TRUE, yaml |-> FALSE, Type |-> "", Fields |-> {}],
     [readable |-> TRUE, yaml |-> TRUE, Type |-> "", Fields |-> {}],
     [readable |-> TRUE, yaml |-> TRUE, Type |-> "squid_combined", Fields |-> {}],
     [readable |-> TRUE, yaml |-> TRUE, Type |-> "custom", Fields |-> {}],
     [readable |-> TRUE, yaml |-> TRUE, Type |-> "custom", Fields |-> requiredFields],
     [readable |-> TRUE, yaml |-> TRUE, Type |-> "custom",
      Fields |-> requiredFields \ {"url"}],
     [readable |-> TRUE, yaml |-> TRUE, Type |-> "elff", Fields |-> {}]}

\* Config.applyLogFormatDefaults
applyLogFormatDefaults(c) ==
    IF c.Type = "" THEN ""
    ELSE IF c.Type \in logFormatPresets THEN ""
    ELSE IF c.Type = "custom"
    THEN IF c.Fields = {} THEN "custom log format requires 'fields' to be defined"
         ELSE IF ~(requiredFields \subseteq c.Fields)
         THEN "custom log format missing required field"
         ELSE ""
    ELSE "unknown log format type"

\* LoadConfig; quoted patterns always compile, so the pattern loop returns no error
LoadConfig(f) ==
    IF ~f.readable THEN "failed to read config file"
    ELSE IF ~f.yaml THEN "failed to parse config"
    ELSE applyLogFormatDefaults(f)

(***************************************************************************)
(* func main.  Parse is a begin and an end here: main calls it from the    *)
(* goroutine of the initial parse, from the ticker branch and from the     *)
(* signal branch of the main loop.                                         *)
(***************************************************************************)
MainFrame ==
    UNCHANGED <<files, logInode, appended, posFile, faults, cfg, tracker, metrics,
                allDomainsSeen, pc, run, calls, hist, save, retry, eval, locks, scrape>>

\* config.LoadConfig(*configFile): on an error main logs a warning and
\* goes on with getDefaultConfig()
MainLoadConfig ==
    /\ main.pc = "start"
    /\ \E f \in ConfigFiles :
         main' = [main EXCEPT !.pc = "setup",
                              !.loadErr = LoadConfig(f),
                              !.config = IF LoadConfig(f) # "" THEN "defaults"
                                         ELSE "loaded"]
    /\ MainFrame

\* NewMetrics, NewParser, signal.Notify, go ListenAndServe, go the initial
\* parse, time.NewTicker
MainStart ==
    /\ main.pc = "setup"
    /\ main' = [main EXCEPT !.pc = "loop", !.server = "serving",
                            !.initial = "spawned"]
    /\ MainFrame

\* the goroutine of the initial parse calls p.Parse()
InitialParse ==
    /\ main.initial = "spawned"
    /\ main.pc # "done"
    /\ main' = [main EXCEPT !.initial = "parsing", !.parses = @ + 1]
    /\ MainFrame

\* the initial p.Parse() returns
InitialParseDone ==
    /\ main.initial = "parsing"
    /\ main.pc # "done"
    /\ main' = [main EXCEPT !.initial = "done"]
    /\ MainFrame

\* case <-ticker.C: p.Parse() is called
MainTick ==
    /\ main.pc = "loop"
    /\ main.ticks < MaxTicks
    /\ main' = [main EXCEPT !.pc = "tick", !.ticks = @ + 1, !.parses = @ + 1]
    /\ MainFrame

\* the p.Parse() of the ticker branch returns
MainTickDone ==
    /\ main.pc = "tick"
    /\ main' = [main EXCEPT !.pc = "loop"]
    /\ MainFrame

\* case sig := <-sigChan: ticker.Stop()
MainSignal ==
    /\ main.pc = "loop"
    /\ main' = [main EXCEPT !.pc = "signalled"]
    /\ MainFrame

\* server.Shutdown(shutdownCtx)
MainShutdownServer ==
    /\ main.pc = "signalled"
    /\ main' = [main EXCEPT !.pc = "shut", !.server = "stopped"]
    /\ MainFrame

\* the final p.Parse() is called
MainFinalParse ==
    /\ main.pc = "shut"
    /\ main' = [main EXCEPT !.pc = "final", !.final = "running", !.parses = @ + 1]
    /\ MainFrame

\* the final p.Parse() returns, and main returns
MainFinalDone ==
    /\ main.pc = "final"
    /\ main' = [main EXCEPT !.pc = "done", !.final = "done"]
    /\ MainFrame

MainNext ==
    \/ MainLoadConfig
    \/ MainStart
    \/ InitialParse
    \/ InitialParseDone
    \/ MainTick
    \/ MainTickDone
    \/ MainSignal
    \/ MainShutdownServer
    \/ MainFinalParse
    \/ MainFinalDone

MainInit == Init /\ cfg = [TrackAllDomains |-> TRUE, MaxDomains |-> MaxDomainsBound]

MainSpec == MainInit /\ [][MainNext]_vars

(***************************************************************************)
(* Tracker.Save, system call by system call, with a process that reads    *)
(* the position file at any moment and a crash of the exporter at any      *)
(* step.  save.tmp is the file positionFile + ".tmp", save.read what the   *)
(* reader got last.                                                        *)
(***************************************************************************)
SaveFrame ==
    UNCHANGED <<files, logInode, appended, faults, cfg, metrics, allDomainsSeen,
                pc, run, calls, hist, main, retry, eval, locks, scrape>>

\* Save is called: t.position is assigned and marshalled
SaveCall ==
    /\ save.pc = "idle"
    /\ \E pos \in 0..MaxArg, inode \in 1..MaxInode :
         /\ tracker' = SaveTracker(pos, inode)
         /\ save' = [save EXCEPT !.pc = "mkdir", !.pos = pos, !.inode = inode]
    /\ UNCHANGED posFile
    /\ SaveFrame

\* os.MkdirAll(dir, 0755): on an error Save returns
SaveMkdir ==
    /\ save.pc = "mkdir"
    /\ \E ok \in BOOLEAN : save' = [save EXCEPT !.pc = IF ok THEN "open" ELSE "idle"]
    /\ UNCHANGED <<tracker, posFile>>
    /\ SaveFrame

\* Save after os.WriteFile returned an error with the text partly written
AfterWriteError_Ignored(s) == [s EXCEPT !.pc = "rename"]

\* Save after os.WriteFile returned an error: Save returns the error
AfterWriteError(s) == [s EXCEPT !.pc = "idle"]

\* os.WriteFile(tmpFile, data, 0644) opens the file with O_CREATE|O_TRUNC
SaveOpenTmp ==
    /\ save.pc = "open"
    /\ \E ok \in BOOLEAN :
         save' = IF ok
                 THEN [save EXCEPT !.pc = "write",
                                   !.tmp = [exists |-> TRUE, Position |-> save.pos,
                                            Inode |-> save.inode, written |-> 0]]
                 ELSE [save EXCEPT !.pc = "idle"]
    /\ UNCHANGED <<tracker, posFile>>
    /\ SaveFrame

\* os.WriteFile writes the next piece of the text, or fails
SaveWrite ==
    /\ save.pc = "write"
    /\ save.tmp.written < WriteChunks
    /\ \E ok \in BOOLEAN :
         save' = IF ok
                 THEN [save EXCEPT !.tmp.written = @ + 1]
                 ELSE AfterWriteError(save)
    /\ UNCHANGED <<tracker, posFile>>
    /\ SaveFrame

\* os.WriteFile closes the file and returns nil
SaveClose ==
    /\ save.pc = "write"
    /\ save.tmp.written = WriteChunks
    /\ save' = [save EXCEPT !.pc = "rename"]
    /\ UNCHANGED <<tracker, posFile>>
    /\ SaveFrame

\* os.Rename(tmpFile, t.positionFile); on an error os.Remove(tmpFile)
SaveRename ==
    /\ save.pc = "rename"
    /\ \E ok \in BOOLEAN :
         /\ posFile' = IF ok THEN save.tmp ELSE posFile
         /\ save' = [save EXCEPT !.pc = "idle", !.tmp = NoPosition]
    /\ UNCHANGED tracker
    /\ SaveFrame

\* the exporter dies inside Save and is started again: the files stay
SaveCrash ==
    /\ save.pc # "idle"
    /\ save' = [save EXCEPT !.pc = "idle"]
    /\ tracker' = [Position |-> 0, Inode |-> 0]
    /\ UNCHANGED posFile
    /\ SaveFrame

\* another process reads the file at the final path
ReadPositionFile ==
    /\ save.read # posFile
    /\ save' = [save EXCEPT !.read = posFile]
    /\ UNCHANGED <<tracker, posFile>>
    /\ SaveFrame

SaveNext ==
    \/ SaveCall
    \/ SaveMkdir
    \/ SaveOpenTmp
    \/ SaveWrite
    \/ SaveClose
    \/ SaveRename
    \/ SaveCrash
    \/ ReadPositionFile

SaveInit == Init /\ cfg = [TrackAllDomains |-> TRUE, MaxDomains |-> MaxDomainsBound]

SaveSpec == SaveInit /\ [][SaveNext]_vars

(***************************************************************************)
(* The position file as the text Tracker.Save writes and Tracker.Load      *)
(* reads: save.text is the content of the file at the final path (posFile  *)
(* says whether it exists), save.pos and save.inode are the arguments of   *)
(* the latest Save, save.ok says that it returned nil, save.op is the      *)
(* latest call.                                                            *)
(***************************************************************************)
\* strconv.AppendUint(.., 10)
RECURSIVE FormatUint(_)
FormatUint(n) ==
    IF n < 10 THEN Ch("0123456789", n + 1)
    ELSE FormatUint(n \div 10) \o Ch("0123456789", (n % 10) + 1)

\* strconv.AppendInt(.., 10)
FormatInt(n) == IF n < 0 THEN "-" \o FormatUint(0 - n) ELSE FormatUint(n)

\* the JSON string literal of s: encoding/json escapes the quote and the
\* backslash (the texts of the model hold no control characters and none of
\* <, >, &)
RECURSIVE Quoted(_)
Quoted(s) ==
    IF Len(s) = 0 THEN ""
    ELSE (IF Ch(s, 1) \in {"\"", "\\"} THEN "\\" \o Ch(s, 1) ELSE Ch(s, 1))
            \o Quoted(SubSeq(s, 2, Len(s)))

\* json.MarshalIndent(t.position, "", "  ")
MarshalIndent(filename, pos, inode, now) ==
    "{\n"
    \o "  \"filename\": \"" \o Quoted(filename) \o "\",\n"
    \o "  \"position\": " \o FormatInt(pos) \o ",\n"
    \o "  \"inode\": " \o FormatUint(inode) \o ",\n"
    \o "  \"last_updated\": \"" \o now \o "\"\n"
    \o "}"

\* s is the inside of a JSON string literal: every backslash escapes the
\* character behind it and no quote stands unescaped
RECURSIVE StringBody(_)
StringBody(s) ==
    IF Len(s) = 0 THEN TRUE
    ELSE IF Ch(s, 1) = "\\" THEN Len(s) >= 2 /\ StringBody(SubSeq(s, 3, Len(s)))
    ELSE Ch(s, 1) # "\"" /\ StringBody(SubSeq(s, 2, Len(s)))

\* s is a JSON string literal
IsString(s) ==
    Len(s) >= 2 /\ Ch(s, 1) = "\"" /\ Ch(s, Len(s)) = "\""
        /\ StringBody(SubSeq(s, 2, Len(s) - 1))

\* s is a JSON integer
IsInt(s) ==
    \/ IsNumber(s) /\ (Len(s) = 1 \/ Ch(s, 1) # "0")
    \/ Len(s) >= 2 /\ Ch(s, 1) = "-" /\ IsNumber(SubSeq(s, 2, Len(s)))
          /\ (Len(s) = 2 \/ Ch(s, 2) # "0")

IntVal(s) == IF Ch(s, 1) = "-" THEN 0 - NumVal(SubSeq(s, 2, Len(s))) ELSE NumVal(s)

\* s without the blanks in front of it
RECURSIVE TrimLeft(_)
TrimLeft(s) == IF Len(s) > 0 /\ Ch(s, 1) = " " THEN TrimLeft(SubSeq(s, 2, Len(s))) ELSE s

\* a member of the object, one on a line as MarshalIndent writes them:
\* [ok, key, value]; last says that no comma follows
Member(line, last) ==
    LET body == TrimLeft(line)
        close == IndexFrom(body, "\"", 2)
        rest == SubSeq(body, close + 1, Len(body))
        value == IF last THEN SubSeq(rest, 3, Len(rest)) ELSE SubSeq(rest, 3, Len(rest) - 1)
    IN  IF Len(body) < 2 \/ Ch(body, 1) # "\"" \/ close = 0 THEN [ok |-> FALSE, key |-> "", value |-> ""]
        ELSE [ok |-> /\ HasPrefix(rest, ": ")
                     /\ (last \/ (Len(rest) > 0 /\ Ch(rest, Len(rest)) = ","))
                     /\ (IsString(value) \/ IsInt(value)),
              key |-> SubSeq(body, 2, close - 1),
              value |-> value]

\* the members of the lines from..to, decoded into the Position t
RECURSIVE Decode(_, _, _, _)
Decode(lines, from, to, t) ==
    IF from > to THEN [err |-> FALSE, t |-> t]
    ELSE LET m == Member(lines[from], from = to)
         IN  IF ~m.ok THEN [err |-> TRUE, t |-> t]
             ELSE IF m.key = "position"
             THEN IF IsInt(m.value)
                  THEN Decode(lines, from + 1, to, [t EXCEPT !.Position = IntVal(m.value)])
                  ELSE [err |-> TRUE, t |-> t]
             ELSE IF m.key = "inode"
             THEN IF IsInt(m.value) /\ Ch(m.value, 1) # "-"
                  THEN Decode(lines, from + 1, to, [t EXCEPT !.Inode = IntVal(m.value)])
                  ELSE [err |-> TRUE, t |-> t]
             ELSE IF m.key \in {"filename", "last_updated"} /\ ~IsString(m.value)
             THEN [err |-> TRUE, t |-> t]
             ELSE Decode(lines, from + 1, to, t)

\* json.Unmarshal(data, &t.position) on an object written one member a
\* line: [err, t]; a text that is no such object is rejected and leaves t
Unmarshal(data, t) ==
    LET lines == Split(data, "\n")
    IN  IF Len(lines) < 2 \/ lines[1] # "{" \/ lines[Len(lines)] # "}"
        THEN [err |-> TRUE, t |-> t]
        ELSE LET d == Decode(lines, 2, Len(lines) - 1, t)
             IN  IF d.err THEN [err |-> TRUE, t |-> t] ELSE d

\* os.WriteFile that opens the file for appending
WriteFile_Append(old, data) == old \o data

\* os.WriteFile(tmpFile, data, 0644) on a file that held old: the file is
\* opened with O_TRUNC
WriteFile(old, data) == data

\* Tracker.Load on the text of the position file
LoadText(t, exists, text) == IF exists THEN Unmarshal(text, t).t ELSE t

\* the file names, offsets, inodes and times of the Saves
SaveFilenames == {"/l", "a\"b\\c"}

SaveOffsets == {0, 7, 120, 2147483647}

SaveInodes == {0, 1, 35, 2147483647}

SaveTimes == {"2026-01-02T03:04:05Z"}

\* Tracker.Save(filename, pos, inode), as a whole
TrackerSave ==
    /\ \E filename \in SaveFilenames, pos \in SaveOffsets, inode \in SaveInodes,
          now \in SaveTimes, ok \in BOOLEAN :
         /\ tracker' = SaveTracker(pos, inode)
         /\ posFile' = SaveFile(posFile, pos, inode, ok)
         /\ save' = [save EXCEPT
                       !.pos = pos, !.inode = inode, !.ok = ok, !.op = "Save",
                       !.text = IF ok
                                THEN WriteFile(IF posFile.exists THEN save.text ELSE "",
                                               MarshalIndent(filename, pos, inode, now))
                                ELSE @]
    /\ SaveFrame

\* Tracker.Load of the Tracker that saved
TrackerLoad ==
    /\ save.op = "Save"
    /\ tracker' = LoadText(tracker, posFile.exists, save.text)
    /\ save' = [save EXCEPT !.op = "Load"]
    /\ UNCHANGED posFile
    /\ SaveFrame

\* NewTracker(positionFile) and its Load
TrackerNew ==
    /\ save.op = "Save"
    /\ tracker' = LoadText([Position |-> 0, Inode |-> 0], posFile.exists, save.text)
    /\ save' = [save EXCEPT !.op = "NewTracker"]
    /\ UNCHANGED posFile
    /\ SaveFrame

TrackerNext ==
    \/ TrackerSave
    \/ TrackerLoad
    \/ TrackerNew

TrackerSpec == SaveInit /\ [][TrackerNext]_vars

(***************************************************************************)
(* The legacy collector: main calls writeMetricsWithRetry once and exits.  *)
(* retry = [pc, configured, attempts, attempt, calls, failures, total,     *)
(* out, result, exit]: attempts is config.RetryAttempts after              *)
(* validateConfig, attempt the loop variable, calls and failures count     *)
(* the writeMetrics calls and the ones that returned an error, out is the  *)
(* number in the file at OutputPath (-1: no file), exit the exit status    *)
(* of the process (-1: running).                                           *)
(***************************************************************************)
RetryFrame ==
    UNCHANGED <<files, logInode, appended, posFile, faults, cfg, tracker, metrics,
                allDomainsSeen, pc, run, calls, hist, main, save, eval, locks, scrape>>

\* validateConfig: only a RetryAttempts of 0 is replaced
validateRetryAttempts(n) == IF n = 0 THEN DefaultRetryAttempts ELSE n

\* main up to the call of writeMetricsWithRetry
RetryStart ==
    /\ retry.pc = "idle"
    /\ \E n \in (-1)..MaxRetryAttempts, total \in 0..MaxArg :
         retry' = [pc |-> "loop", configured |-> n,
                   attempts |-> validateRetryAttempts(n),
                   attempt |-> 0, calls |-> 0, failures |-> 0, total |-> total,
                   out |-> -1, result |-> "", exit |-> -1]
    /\ RetryFrame

\* the loop variable after a failed attempt, had continue skipped attempt++
NextAttempt_Same(attempt) == attempt

\* the loop variable after a failed attempt: continue runs attempt++
NextAttempt(attempt) == attempt + 1

\* one iteration: writeMetrics returns nil, or an error before the rename,
\* or an error of os.Chmod after the rename
RetryAttempt ==
    /\ retry.pc = "loop"
    /\ retry.attempt < retry.attempts
    /\ \E outcome \in {"ok", "failed", "chmod"} :
         retry' = [retry EXCEPT
                      !.calls = @ + 1,
                      !.failures = IF outcome = "ok" THEN @ ELSE @ + 1,
                      !.out = IF outcome = "failed" THEN @ ELSE retry.total,
                      !.result = IF outcome = "ok" THEN "nil" ELSE @,
                      !.pc = IF outcome = "ok" THEN "returned" ELSE "sleep"]
    /\ RetryFrame

\* logError, time.Sleep(mc.retryDelay), continue
RetrySleep ==
    /\ retry.pc = "sleep"
    /\ retry' = [retry EXCEPT !.attempt = NextAttempt(@), !.pc = "loop"]
    /\ RetryFrame

\* the loop condition fails: "failed after %d attempts"
RetryExhausted ==
    /\ retry.pc = "loop"
    /\ retry.attempt >= retry.attempts
    /\ retry' = [retry EXCEPT !.result = "error", !.pc = "returned"]
    /\ RetryFrame

\* main: log.Fatalf on an error (exit status 1), else the summary and return
RetryExit ==
    /\ retry.pc = "returned"
    /\ retry' = [retry EXCEPT !.pc = "exited",
                              !.exit = IF retry.result = "nil" THEN 0 ELSE 1]
    /\ RetryFrame

RetryRun ==
    \/ RetryAttempt
    \/ RetrySleep
    \/ RetryExhausted
    \/ RetryExit

RetryNext ==
    \/ RetryStart
    \/ RetryRun

RetryInit == Init /\ cfg = [TrackAllDomains |-> TRUE, MaxDomains |-> MaxDomainsBound]

\* the process is scheduled until it exits
RetrySpec == RetryInit /\ [][RetryNext]_vars /\ WF_vars(RetryRun)

(***************************************************************************)
(* The pure functions, called with arguments drawn from bounded sets.      *)
(* eval holds the function, its arguments and its result.                  *)
(***************************************************************************)
EvalFrame ==
    UNCHANGED <<files, logInode, appended, posFile, faults, cfg, tracker, metrics,
                allDomainsSeen, pc, run, calls, hist, main, save, retry, locks, scrape>>

\* the sequences of at most n elements of S
SeqsUpTo(S, n) == UNION {[1..k -> S] : k \in 0..n}

RuleHosts == {"a.io", "b.a.io"}

\* the rules and patterns a configuration is built from
RuleUniverse ==
    [Host : RuleHosts, Port : {"", "443"}, Labels : {[team |-> "x"], [team |-> "y"]}]

PatternUniverse ==
    [Pattern : {"*.io", "a.*"}, Labels : {[team |-> "x"], [team |-> "p"]}]

ObservedHosts == RuleHosts \cup {"c.org"}

ObservedPorts == {"443", "80"}

CallIsMonitored ==
    /\ eval = NoEval
    /\ \E rules \in SeqsUpTo(RuleUniverse, MaxRules),
          patterns \in SeqsUpTo(PatternUniverse, MaxRules),
          host \in ObservedHosts, port \in ObservedPorts :
         eval' = [fn |-> "IsMonitored",
                  c |-> [MonitoredDomains |-> rules, DomainPatterns |-> patterns],
                  host |-> host, port |-> port,
                  result |-> IsMonitoredCfg([MonitoredDomains |-> rules,
                                             DomainPatterns |-> patterns],
                                            host, port)]
    /\ EvalFrame

\* the URL field of a log line, written from its parts: a bare host[:port],
\* an absolute http or https URL, or a proxy-internal URL
UrlForms == {"hostport", "http", "https", "cache_object", "mgr", "internal", "urn"}

UrlHosts == {"a.io", "b.io", "", "-", "localhost"}

UrlPorts == {"", "8080"}

HostPortText(host, port) == IF port = "" THEN host ELSE host \o ":" \o port

UrlText(form, host, port) ==
    CASE form = "hostport" -> HostPortText(host, port)
      [] form = "http" -> "http://" \o HostPortText(host, port) \o "/"
      [] form = "https" -> "https://" \o HostPortText(host, port) \o "/x"
      [] form = "cache_object" -> "cache_object://" \o HostPortText(host, port) \o "/info"
      [] form = "mgr" -> "mgr://" \o HostPortText(host, port)
      [] form = "internal" -> "internal://" \o HostPortText(host, port) \o "/icon"
      [] form = "urn" -> "urn:" \o host

\* the accumulator before the line: empty, or with a.io:80 in it
StatsBefore == {NewStats, parseLine("1 5 TCP_HIT/200 7 GET http://a.io/", NewStats).stats}

\* parseLine on a line whose method and URL are written from their parts;
\* a CONNECT line has a host[:port] target
CallParseLine ==
    /\ eval = NoEval
    /\ \E method \in {"CONNECT", "GET"}, form \in UrlForms, host \in UrlHosts,
          port \in UrlPorts, before \in StatsBefore :
         /\ method = "CONNECT" => form = "hostport"
         /\ eval' = [fn |-> "parseLine", method |-> method, form |-> form,
                     host |-> host, port |-> port, before |-> before,
                     result |-> parseLine("1 5 TCP_MISS/200 7 " \o method \o " "
                                             \o UrlText(form, host, port), before)]
    /\ EvalFrame

\* cacheRegex of the legacy collector on a status made of word characters:
\* with a word boundary on both sides only the whole status can match
cacheRegexMatch(status) ==
    IF status \in {"TCP_HIT", "TCP_MISS", "TCP_DENIED", "TCP_TUNNEL"} THEN status ELSE ""

\* the millisecond interval of the legacy collector
msInterval(duration) ==
    CASE duration <= 200 -> "0-200"
      [] duration > 200 /\ duration <= 400 -> "200-400"
      [] duration > 400 /\ duration <= 600 -> "400-600"
      [] duration > 600 /\ duration <= 800 -> "600-800"
      [] duration > 800 /\ duration <= 1000 -> "800-1000"
      [] OTHER -> "over1000"

\* strings.Fields on a line whose only white space is the space
Fields(line) == SelectSeq(Split(line, " "), LAMBDA f : f # "")

\* durationCounts["ms"] of the legacy parseNewEntries after one line
legacyMsCounts(line) ==
    IF /\ Len(Fields(line)) >= 4
       /\ cacheRegexMatch(Split(Fields(line)[4], "/")[1]) \notin {"", "TCP_TUNNEL"}
       /\ IsNumber(Fields(line)[2])
    THEN Inc(EmptyMap, msInterval(NumVal(Fields(line)[2])), 1)
    ELSE EmptyMap

\* the example line: one request of the native format
ExampleLine ==
    "1700000000.000 150 10.0.0.1 TCP_MISS/200 1024 GET http://example.com/ - HIER_DIRECT/1.2.3.4 text/html"

\* a line of the native format written from its duration, result code and URL
NativeLine(elapsed, resultCode, urlStr) ==
    "1700000000.000 " \o elapsed \o " 10.0.0.1 " \o resultCode \o " 1024 GET " \o urlStr
       \o " - HIER_DIRECT/1.2.3.4 text/html"

\* one line of the native format through parseLine on a fresh accumulator,
\* and through the legacy duration switch
CallEndToEnd ==
    /\ eval = NoEval
    /\ \E elapsed \in {"150", "250", "-"},
          resultCode \in {"TCP_MISS/200", "TCP_HIT/200", "TCP_TUNNEL/200", "TCP_MISS/404", "NONE"},
          urlStr \in {"http://example.com/", "example.com:443", "http://example.com:8080/x"} :
         eval' = [fn |-> "endToEnd",
                  line |-> NativeLine(elapsed, resultCode, urlStr),
                  result |-> parseLineFormat(squid_native, NativeLine(elapsed, resultCode, urlStr), NewStats),
                  ms |-> legacyMsCounts(NativeLine(elapsed, resultCode, urlStr))]
    /\ EvalFrame

\* the percentiles updateMetrics asks for, in percent
Percents == {50, 90, 95, 99}

\* the samples: every sequence of at most MaxSamples durations, and the
\* descending sequences n, n - 1, .., 1 up to MaxRamp
Samples ==
    SeqsUpTo(0..MaxArg, MaxSamples) \cup {[i \in 1..n |-> n + 1 - i] : n \in 0..MaxRamp}

\* the caller's slice after calculatePercentile: it sorts a copy
SliceAfter(durations) == durations

CallPercentile ==
    /\ eval = NoEval
    /\ \E durations \in Samples :
         eval' = [fn |-> "calculatePercentile", durations |-> durations,
                  after |-> SliceAfter(durations),
                  result |-> [pct \in Percents |-> calculatePercentile(durations, pct)]]
    /\ EvalFrame

\* the label maps of the rules: every subset of the label keys, each key
\* with a value of its own
LabelMaps == {[k \in ks |-> IF k = "env" THEN "prod" ELSE "x"] : ks \in SUBSET {"env", "team"}}

\* main makes the Metrics with cfg.GetCustomLabelKeys(), and every rule and
\* pattern of the configuration is the rule of an updated domain
CallLabelValues ==
    /\ eval = NoEval
    /\ \E rules \in SeqsUpTo([Host : {"a.io"}, Port : {""}, Labels : LabelMaps], MaxRules),
          patterns \in SeqsUpTo([Pattern : {"*.io"}, Labels : LabelMaps], MaxRules) :
         eval' = [fn |-> "labelValues",
                  c |-> [MonitoredDomains |-> rules, DomainPatterns |-> patterns],
                  keys |-> GetCustomLabelKeys([MonitoredDomains |-> rules, DomainPatterns |-> patterns]),
                  vectors |->
                      [i \in 1..Len(rules) |->
                          LabelVectors(GetCustomLabelKeys([MonitoredDomains |-> rules, DomainPatterns |-> patterns]),
                                       rules[i].Host, "80", rules[i].Labels)]
                      \o [i \in 1..Len(patterns) |->
                          LabelVectors(GetCustomLabelKeys([MonitoredDomains |-> rules, DomainPatterns |-> patterns]),
                                       "b.io", "443", patterns[i].Labels)]]
    /\ EvalFrame

EvalNext ==
    \/ CallLabelValues
    \/ CallIsMonitored
    \/ CallParseLine
    \/ CallPercentile
    \/ CallEndToEnd

EvalInit == Init /\ cfg = [TrackAllDomains |-> TRUE, MaxDomains |-> MaxDomainsBound]

EvalSpec == EvalInit /\ [][EvalNext]_vars

(***************************************************************************)
(* The mutexes.  Every function that takes a mutex is a list of            *)
(* instructions: lock, rlock, unlock, runlock of a mutex, use of a         *)
(* guarded datum, io on a file.  Parse is the list of the functions it     *)
(* calls, in order, for a run with one checkpoint and one domain.          *)
(* locks.at[g] is the function (op), the instruction (ip) goroutine g      *)
(* executes next, and the Parse calls it has finished.                     *)
(***************************************************************************)
LockFrame ==
    UNCHANGED <<files, logInode, appended, posFile, faults, cfg, tracker, metrics,
                allDomainsSeen, pc, run, calls, hist, main, save, retry, eval, scrape>>

Ins(do, on) == [do |-> do, on |-> on]

\* Tracker.Load: the whole body under t.mu, os.ReadFile included
LoadCode == <<Ins("lock", "t.mu"), Ins("io", "position file"), Ins("use", "position"), Ins("unlock", "t.mu")>>

\* Tracker.Save: the whole body under t.mu, WriteFile and Rename included
SaveCode == <<Ins("lock", "t.mu"), Ins("use", "position"), Ins("io", "position file"), Ins("unlock", "t.mu")>>

\* Tracker.GetPosition
GetPositionCode == <<Ins("rlock", "t.mu"), Ins("use", "position"), Ins("runlock", "t.mu")>>

\* Metrics.Set* and Update*: the whole body under m.mu
MetricsCode == <<Ins("lock", "m.mu"), Ins("use", "lastSeen"), Ins("unlock", "m.mu")>>

\* the admission section that calls UpdateAllDomains before it unlocks
AdmitCode_CallsInside ==
    <<Ins("lock", "p.mu"), Ins("use", "allDomainsSeen"), Ins("lock", "m.mu"), Ins("use", "lastSeen"), Ins("unlock", "m.mu"), Ins("unlock", "p.mu")>>

\* updateMetrics, the admission section under p.mu
AdmitCode == <<Ins("lock", "p.mu"), Ins("use", "allDomainsSeen"), Ins("unlock", "p.mu")>>

\* updateMetrics, the count of untracked domains under p.mu
UntrackedCode == <<Ins("lock", "p.mu"), Ins("use", "allDomainsSeen"), Ins("unlock", "p.mu")>>

\* os.Open, the scanner's reads
FileCode == <<Ins("io", "log")>>

\* the scrape: the registry reads the counters, no mutex of the exporter
GatherCode == <<Ins("use", "counters")>>

\* Parser.Parse: Load, os.Open, GetPosition, scan, checkpoint Save, scan,
\* updateMetrics (global Set*, admission, UpdateAllDomains, __other__,
\* untracked count), final Save
ParseCode ==
    <<LoadCode, FileCode, GetPositionCode, FileCode, SaveCode, FileCode,
      MetricsCode, AdmitCode, MetricsCode, MetricsCode, UntrackedCode, SaveCode>>

CodeOf(g) == IF g = "scrape" THEN <<GatherCode>> ELSE ParseCode

\* the instruction goroutine g executes next
Current(g) == CodeOf(g)[locks.at[g].op][locks.at[g].ip]

\* the initial-parse goroutine calls Parse once, main on every tick
Running(g) == locks.at[g].runs < (IF g = "initial" THEN 1 ELSE MaxRuns)

\* the mutexes goroutine g holds
Held(g) == {x \in Mutexes : locks.w[x] = g \/ g \in locks.r[x]}

\* sync.RWMutex: Lock waits for the writer and the readers, RLock for the writer
CanRun(g) ==
    /\ Running(g)
    /\ Current(g).do = "lock" => (locks.w[Current(g).on] = "none" /\ locks.r[Current(g).on] = {})
    /\ Current(g).do = "rlock" => locks.w[Current(g).on] = "none"

\* the position of g after its current instruction
Advance(g) ==
    IF locks.at[g].ip < Len(CodeOf(g)[locks.at[g].op])
    THEN [locks.at[g] EXCEPT !.ip = @ + 1]
    ELSE IF locks.at[g].op < Len(CodeOf(g))
    THEN [locks.at[g] EXCEPT !.op = @ + 1, !.ip = 1]
    ELSE [op |-> 1, ip |-> 1, runs |-> locks.at[g].runs + 1]

\* goroutine g executes its current instruction
Step(g) ==
    /\ CanRun(g)
    /\ locks' = [locks EXCEPT
                   !.pc = "running",
                   !.at[g] = Advance(g),
                   !.w = CASE Current(g).do = "lock" -> [@ EXCEPT ![Current(g).on] = g]
                           [] Current(g).do = "unlock" -> [@ EXCEPT ![Current(g).on] = "none"]
                           [] OTHER -> @,
                   !.r = CASE Current(g).do = "rlock" -> [@ EXCEPT ![Current(g).on] = @ \cup {g}]
                           [] Current(g).do = "runlock" -> [@ EXCEPT ![Current(g).on] = @ \ {g}]
                           [] OTHER -> @]
    /\ LockFrame

LockNext == \E g \in Goroutines : Step(g)

LockInit == Init /\ cfg = [TrackAllDomains |-> TRUE, MaxDomains |-> MaxDomainsBound]

LockSpec == LockInit /\ [][LockNext]_vars

(***************************************************************************)
(* Parse beside the HTTP server of main.  updateMetrics is the sequence of *)
(* its calls of the Metrics, each of which takes and releases Metrics.mu   *)
(* on its own; the handler of /metrics gathers from the registry between   *)
(* any two of them.                                                        *)
(***************************************************************************)
ScrapeFrame == <<files, logInode, appended, posFile, faults, cfg, main, save, retry, eval, locks, tracker, run>>

\* p.metrics.SetConnections(stats.Connections), the first call of updateMetrics
UpdConnections ==
    /\ pc = "update"
    /\ scrape.pc = "idle"
    /\ metrics' = SetConnections(metrics, run.stats.Connections)
    /\ scrape' = [scrape EXCEPT
                    !.pc = "update",
                    !.durations = DOMAIN run.stats.RequestDurations,
                    !.cache = DOMAIN run.stats.CacheStatuses,
                    !.http = DOMAIN run.stats.HTTPResponses,
                    !.domains = DOMAIN run.stats.DomainData,
                    !.other = NoOther,
                    !.start = [m |-> metrics, seen |-> allDomainsSeen]]
    /\ calls' = {}
    /\ UNCHANGED <<allDomainsSeen, pc, hist>>
    /\ UNCHANGED ScrapeFrame

\* one iteration of the loop over stats.RequestDurations
UpdDuration ==
    /\ scrape.pc = "update"
    /\ \E interval \in scrape.durations :
         /\ metrics' = SetRequestDuration(metrics, interval, run.stats.RequestDurations[interval])
         /\ scrape' = [scrape EXCEPT !.durations = @ \ {interval}]
    /\ UNCHANGED <<allDomainsSeen, pc, hist, calls>>
    /\ UNCHANGED ScrapeFrame

\* one iteration of the loop over stats.CacheStatuses
UpdCache ==
    /\ scrape.pc = "update"
    /\ scrape.durations = {}
    /\ \E status \in scrape.cache :
         /\ metrics' = SetCacheStatus(metrics, status, run.stats.CacheStatuses[status])
         /\ scrape' = [scrape EXCEPT !.cache = @ \ {status}]
    /\ UNCHANGED <<allDomainsSeen, pc, hist, calls>>
    /\ UNCHANGED ScrapeFrame

\* one iteration of the loop over stats.HTTPResponses
UpdHTTP ==
    /\ scrape.pc = "update"
    /\ scrape.durations = {}
    /\ scrape.cache = {}
    /\ \E cc \in scrape.http :
         /\ metrics' = SetHTTPResponse(metrics, cc[1], cc[2], run.stats.HTTPResponses[cc])
         /\ scrape' = [scrape EXCEPT !.http = @ \ {cc}]
    /\ UNCHANGED <<allDomainsSeen, pc, hist, calls>>
    /\ UNCHANGED ScrapeFrame

\* one iteration of the loop over stats.DomainData
UpdDomain ==
    /\ scrape.pc = "update"
    /\ scrape.durations = {}
    /\ scrape.cache = {}
    /\ scrape.http = {}
    /\ \E key \in scrape.domains :
         LET st == DomainStep([m |-> metrics, seen |-> allDomainsSeen,
                               other |-> scrape.other, calls |-> calls],
                              key[1], key[2], run.stats.DomainData[key],
                              cfg.TrackAllDomains, cfg.MaxDomains)
         IN  /\ metrics' = st.m
             /\ allDomainsSeen' = st.seen
             /\ calls' = st.calls
             /\ scrape' = [scrape EXCEPT !.domains = @ \ {key}, !.other = st.other]
    /\ UNCHANGED <<pc, hist>>
    /\ UNCHANGED ScrapeFrame

\* the end of updateMetrics: the __other__ series, and the return to Parse
UpdOther ==
    /\ scrape.pc = "update"
    /\ scrape.durations = {}
    /\ scrape.cache = {}
    /\ scrape.http = {}
    /\ scrape.domains = {}
    /\ metrics' = IF cfg.TrackAllDomains /\ scrape.other.Requests > 0
                  THEN UpdateAllDomains(metrics, "__other__", "0", scrape.other.Requests,
                                        scrape.other.BytesIn, scrape.other.BytesOut,
                                        scrape.other.ByCategory)
                  ELSE metrics
    /\ calls' = IF cfg.TrackAllDomains /\ scrape.other.Requests > 0
                THEN calls \cup {[fn |-> "UpdateAllDomains", host |-> "__other__",
                                  port |-> "0", requests |-> scrape.other.Requests]}
                ELSE calls
    /\ hist' = Clean([hist EXCEPT !.overflow = @ + scrape.other.Requests])
    /\ scrape' = [scrape EXCEPT !.pc = "idle", !.whole = @ \cup {View(metrics')}]
    /\ pc' = "save"
    /\ UNCHANGED allDomainsSeen
    /\ UNCHANGED ScrapeFrame

\* promhttp.Handler serves a GET /metrics
Gather ==
    /\ scrape' = [scrape EXCEPT !.snapshot = View(metrics),
                                !.taken = IF scrape.pc = "update" THEN "during" ELSE "between"]
    /\ scrape' # scrape
    /\ UNCHANGED <<metrics, allDomainsSeen, pc, hist, calls>>
    /\ UNCHANGED ScrapeFrame

\* the lines of the logs of the runs that are scraped; the last one does
\* not fit the scanner's buffer
ScrapeLines ==
    { "1 150 TCP_MISS/200 9 GET http://a.io/",
      "1 5 TCP_HIT/200 7 GET http://a.io/",
      "1 5 TCP_TUNNEL/200 7 CONNECT b.io:443",
      "1 5 TCP_MISS/404 7 GET http://localhost/",
      "1 5 TCP_MISS/200 7 GET http://a.io/0123456789abcdef" }

ScrapeFiles == {JoinLines(ls) : ls \in UNION {[1..n -> ScrapeLines] : n \in 0..MaxLines}}

ScrapeInit == ScanInitOf(ScrapeFiles)

ScrapeNext ==
    \/ ParseOpen
    \/ ParseStat
    \/ ScanLine
    \/ ScanEnd
    \/ ScanFail
    \/ UpdConnections
    \/ UpdDuration
    \/ UpdCache
    \/ UpdHTTP
    \/ UpdDomain
    \/ UpdOther
    \/ FinalSave
    \/ Gather

ScrapeSpec == ScrapeInit /\ [][ScrapeNext]_vars

(***************************************************************************)
(* Properties.                                                             *)
(***************************************************************************)
ConnectionsSeries == <<"squid_connections_total", <<>>>>

OtherSeries == <<"squid_all_domains_requests_total", <<"__other__", "0">>>>

\* C1: in one process, after completed runs over a log that was only
\* appended to (no rotation, truncation or failed save), the exported
\* squid_connections_total equals the number of lines parseLine accepted
\* in those runs.
C1_ConnectionsCountAccepted ==
    (pc = "idle" /\ hist.clean)
        => Get(metrics.counters, ConnectionsSeries) = hist.accepted

\* C2: a run that follows a completed run of the same process on an
\* unmodified log (same inode, no new bytes) changes no exported counter.
C2_RereadIdempotent ==
    [][(hist.unmodified /\ pc = "update") => metrics'.counters = metrics.counters]_vars

\* the second run on an unmodified log has emitted its deltas, and the
\* first one had counted connections
C2_Witness ==
    /\ pc = "save"
    /\ hist.unmodified
    /\ Get(metrics.counters, ConnectionsSeries) > 0

\* C3: no call of the delta engine lowers an exported counter, whatever
\* its non-negative arguments.
C3_CountersMonotonic ==
    [][\A series \in DOMAIN metrics.counters :
          /\ series \in DOMAIN metrics'.counters
          /\ metrics'.counters[series] >= metrics.counters[series]]_vars

\* a key was given a value below the one given before: the counter stands
\* above the stored value
C3_Witness ==
    \E c \in calls :
        /\ "key" \in DOMAIN c
        /\ Get(metrics.counters, c.series) > c.value
        /\ Get(metrics.lastSeen, c.key) = c.value

\* C4: every update of a call adds max(0, value - previous stored value)
\* to the counter of its key and stores the value; the stored values and
\* the counters of all other keys stay as they are.
C4_DeltaContract ==
    [][/\ \A c \in calls' :
            /\ c.key \in DOMAIN metrics'.lastSeen
            /\ metrics'.lastSeen[c.key] = c.value
            /\ Get(metrics'.counters, c.series)
                 = Get(metrics.counters, c.series)
                   + Max(0, c.value - Get(metrics.lastSeen, c.key))
       /\ \A k \in DOMAIN metrics'.lastSeen \ {c.key : c \in calls'} :
            k \in DOMAIN metrics.lastSeen /\ metrics'.lastSeen[k] = metrics.lastSeen[k]
       /\ \A k \in DOMAIN metrics.lastSeen : k \in DOMAIN metrics'.lastSeen
       /\ \A sr \in (DOMAIN metrics'.counters \cup DOMAIN metrics.counters)
                      \ {c.series : c \in calls'} :
            Get(metrics'.counters, sr) = Get(metrics.counters, sr)]_vars

\* an update of a key never seen before, and an update with a value below
\* the stored one, have both happened
C4_Witness ==
    /\ \E c \in calls : "key" \in DOMAIN c /\ Get(metrics.counters, c.series) > c.value
    /\ \E c \in calls : "key" \in DOMAIN c /\ c.value > 0
                        /\ Get(metrics.counters, c.series) = c.value

\* the exported all-domains request series of individual domains
IndividualSeries ==
    {sr \in DOMAIN metrics.counters :
        sr[1] = "squid_all_domains_requests_total" /\ sr[2][1] # "__other__"}

\* C5: with all-domains tracking on and max_domains = k >= 0, the seen set
\* never has more than k members and at most k individual all-domains
\* series have been updated, however many domains the runs observe.
C5_CardinalityBound ==
    (cfg.TrackAllDomains /\ cfg.MaxDomains >= 0)
        => /\ Cardinality(allDomainsSeen) <= cfg.MaxDomains
           /\ Cardinality(IndividualSeries) <= cfg.MaxDomains

\* a run observed more domains than max_domains: the seen set is full and
\* the rest went to __other__
C5_Witness ==
    /\ pc = "save"
    /\ cfg.TrackAllDomains
    /\ cfg.MaxDomains > 0
    /\ Cardinality(DOMAIN run.stats.DomainData) > cfg.MaxDomains
    /\ Cardinality(allDomainsSeen) = cfg.MaxDomains
    /\ Cardinality(IndividualSeries) = cfg.MaxDomains
    /\ OtherSeries \in DOMAIN metrics.counters

MonitoredKeys == {k \in DOMAIN run.stats.DomainData : IsMonitored(k[1], k[2])}

\* C7: whatever the seen set and the TrackAllDomains setting, the update
\* calls UpdateMonitoredDomain for exactly the monitored accumulators of
\* the run, each with its own host, port and request count, and never for
\* __other__.
C7_MonitoredExempt ==
    pc = "save"
        => /\ {c \in calls : c.fn = "UpdateMonitoredDomain"}
                = {[fn |-> "UpdateMonitoredDomain", host |-> k[1], port |-> k[2],
                    requests |-> run.stats.DomainData[k].Requests] : k \in MonitoredKeys}
           /\ \A k \in MonitoredKeys :
                /\ k[1] # "__other__"
                /\ Get(metrics.lastSeen, "mon_req|" \o k[1] \o "|" \o k[2])
                     = run.stats.DomainData[k].Requests

\* a monitored domain was observed while the seen set was full without it:
\* it is not tracked in the all-domains tier, and got its extended metrics
C7_Witness ==
    /\ pc = "save"
    /\ cfg.TrackAllDomains
    /\ \E k \in MonitoredKeys :
         /\ domainKey(k[1], k[2]) \notin allDomainsSeen
         /\ \E c \in calls : c.fn = "UpdateMonitoredDomain" /\ c.host = k[1]

\* the run found a position (o > 0, inode A) persisted and the log path at
\* inode B # A, from os.Open to GetFileInode
RotationCase(r, pathInode) ==
    /\ r.loaded.exists
    /\ r.loaded.Position > 0
    /\ r.loaded.Inode # pathInode
    /\ r.fd = pathInode
    /\ ~r.rotated

\* C8: with (o > 0, inode A) persisted and the log path at inode B # A, the
\* run scans the file of inode B from byte 0, and its final save persists
\* inode B with an offset measured in that file (its size, the scan having
\* read it to the end).
C8_RotationRestarts ==
    [][/\ (pc = "opened" /\ pc' = "scan" /\ RotationCase(run, logInode))
            => (run'.sc.off = 0 /\ run'.startPos = 0 /\ run'.currentInode = logInode)
       /\ (pc = "save" /\ pc' = "idle" /\ faults' = faults
           /\ RotationCase(run, run.currentInode))
            => posFile' = [exists |-> TRUE, Position |-> Len(files[run.currentInode]),
                           Inode |-> run.currentInode, written |-> WriteChunks]]_vars

\* a run in the rotation case has scanned lines of the new file from byte 0
C8_Witness ==
    /\ pc = "save"
    /\ RotationCase(run, run.currentInode)
    /\ run.startPos = 0
    /\ run.lineCount > 0

\* C9: with the persisted inode equal to the inode of the log and the
\* persisted offset beyond the size of the log, the run starts its scan at
\* byte 0.
C9_TruncationResets ==
    (/\ pc \in {"scan", "update", "save"}
     /\ run.loaded.exists
     /\ run.loaded.Inode = run.currentInode
     /\ run.fd = run.currentInode
     /\ run.loaded.Position > Len(files[run.fd]))
        => run.startPos = 0

\* C10: over successful runs on an append-only log with one inode, process
\* restarts included, a run starts its scan at the offset the previous
\* final save persisted, and no byte is read by two runs.
C10_ScannedOnce ==
    hist.clean
        => /\ ~hist.rescanned
           /\ (pc \in {"scan", "update", "save"} /\ hist.hasFinal)
                => run.startPos = hist.lastFinal

\* after a restart, a run resumed at the persisted offset and read the
\* bytes appended since
C10_Witness ==
    /\ hist.clean
    /\ hist.hasFinal
    /\ pc = "update"
    /\ metrics = NewMetrics
    /\ run.startPos > 0
    /\ run.startPos = hist.lastFinal
    /\ run.sc.off > run.startPos

\* C11: the position file never holds an offset beyond the end of the log
\* bytes whose observations have been applied to the exported metrics: while
\* a run is between its seek and its update (nothing of the run is emitted
\* yet), the persisted offset is at most the offset the run started from.
C11_PersistAfterEmit ==
    (/\ pc \in {"scan", "update"}
     /\ hist.clean
     /\ posFile.exists
     /\ posFile.Inode = run.fd)
        => posFile.Position <= run.startPos

\* C12: no two executions of Parse are in progress at the same time: the
\* initial parse is not running while the main loop is inside the Parse
\* of a tick or of the shutdown.
C12_ParseSequential ==
    ~(main.initial = "parsing" /\ main.pc \in {"tick", "final"})

\* C13: the HTTP server is shut down only after the final Parse of the
\* shutdown has completed.
C13_FinalParseBeforeShutdown ==
    main.server = "stopped" => main.final = "done"

\* C20: right after a position save that succeeded (the final save of a
\* run, or a checkpoint that changed the position file), the persisted
\* offset is at most the size of the file the persisted inode identifies.
C20_OffsetWithinFile ==
    [][((pc = "save" /\ faults' = faults) \/ posFile' # posFile)
            => posFile'.Position <= Len(files'[posFile'.Inode])]_vars

\* a file that is missing or holds one whole record
WholeOrMissing(f) == ~f.exists \/ f.written = WriteChunks

\* C14: whatever the interleaving of Save with a reader and wherever the
\* exporter crashes, the file at the final path is missing or holds one
\* whole record, and so does every content a reader has got.
C14_AtomicPersistence ==
    WholeOrMissing(posFile) /\ WholeOrMissing(save.read)

\* a reader has the previous record while a Save that already failed once
\* has a partly written temporary file of the next one
C14_Witness ==
    /\ save.pc = "write"
    /\ save.tmp.exists
    /\ save.tmp.written \in 1..(WriteChunks - 1)
    /\ posFile.exists
    /\ save.read = posFile
    /\ posFile.Position # save.tmp.Position

\* C15: a run that loaded a position file it could not parse is aborted
\* before a line is scanned, and changes neither the position file nor the
\* exported metrics.
C15_UnparsableFatal ==
    Unparsable(run.loaded)
        => (/\ pc \notin {"scan", "update", "save"}
            /\ posFile = run.loaded
            /\ metrics = hist.before)

\* C16: a run that loaded a missing position file scans the log from byte 0.
C16_MissingFromZero ==
    (pc \in {"scan", "update", "save"} /\ ~run.loaded.exists) => run.startPos = 0

\* a line that is malformed: fewer fields than the highest configured index
\* + 1, or a result code that does not split on "/" into two parts
Malformed(line) ==
    \/ Len(splitPreservingQuotes(line)) < minFields + 1
    \/ Len(Split(GetField(splitPreservingQuotes(line), "result_code"), "/")) # 2

\* the accumulator and the line count of the well-formed lines of ls, in order
RECURSIVE FoldWellFormed(_, _, _, _)
FoldWellFormed(ls, i, stats, n) ==
    IF i > Len(ls) THEN [stats |-> stats, n |-> n]
    ELSE IF Malformed(ls[i]) THEN FoldWellFormed(ls, i + 1, stats, n)
    ELSE FoldWellFormed(ls, i + 1, parseLine(ls[i], stats).stats, n + 1)

\* the lines of the log from the offset the run began at
RunLines == Split(SubSeq(files[run.fd], run.startPos + 1, Len(files[run.fd])), "\n")

C18_FailedRunPublishesNothing ==
    (pc = "idle" /\ hist.failed # "") => metrics = hist.before

\* a run failed in the scanner with accepted lines in its accumulator,
\* after an earlier run had published
C18_Witness ==
    /\ pc = "idle"
    /\ hist.failed = "scan"
    /\ hist.failedLines >= 1
    /\ metrics # NewMetrics

\* what writeMetricsWithRetry has done so far and what it returned
RetrySafe ==
    retry.pc # "idle" =>
        /\ retry.calls <= Max(retry.attempts, 0)
        /\ retry.result = "nil" =>
             (retry.failures = retry.calls - 1 /\ retry.out = retry.total)
        /\ retry.result = "error" =>
             (retry.failures = retry.calls /\ retry.calls = Max(retry.attempts, 0))
        /\ retry.pc \in {"loop", "sleep"} => retry.failures = retry.calls
        /\ retry.pc = "exited" =>
             retry.exit = (IF retry.result = "nil" THEN 0 ELSE 1)

RECURSIVE PieceEnds(_, _, _)
PieceEnds(pieces, k, host) ==
    IF k = 1
    THEN IF HasPrefix(host, pieces[1]) THEN {Len(pieces[1])} ELSE {}
    ELSE {e \in 0..Len(host) :
            \E b \in PieceEnds(pieces, k - 1, host) :
                /\ b + Len(pieces[k]) <= e
                /\ SubSeq(host, e - Len(pieces[k]) + 1, e) = pieces[k]}

\* the wildcard pattern matches the whole host
MatchesWhole(pattern, host) ==
    Len(host) \in PieceEnds(Split(pattern, "*"), Len(Split(pattern, "*")), host)

\* the exact rules of c that match, and its patterns that match the host
ExactMatches(c, host, port) ==
    {i \in 1..Len(c.MonitoredDomains) :
        /\ c.MonitoredDomains[i].Host = host
        /\ c.MonitoredDomains[i].Port \in {"", port}}

PatternMatches(c, host) ==
    {k \in 1..Len(c.DomainPatterns) : MatchesWhole(c.DomainPatterns[k].Pattern, host)}

MinOf(S) == CHOOSE m \in S : \A x \in S : m <= x

\* C22: IsMonitored returns the first exact rule that matches; without one,
\* a rule made of the observed host and port and the labels of the first
\* pattern that matches the whole host; without one, not-monitored.
C22_ExactBeforePattern ==
    eval.fn = "IsMonitored" =>
        eval.result =
            (IF ExactMatches(eval.c, eval.host, eval.port) # {}
             THEN FromRule(eval.c, MinOf(ExactMatches(eval.c, eval.host, eval.port)))
             ELSE IF PatternMatches(eval.c, eval.host) # {}
             THEN FromPattern(eval.c, MinOf(PatternMatches(eval.c, eval.host)),
                              eval.host, eval.port)
             ELSE NotMonitored)

\* a pattern listed in the configuration matches the host, the second exact
\* rule matches as well, with other labels, and its labels are returned
C22_Witness ==
    /\ eval.fn = "IsMonitored"
    /\ PatternMatches(eval.c, eval.host) # {}
    /\ MinOf(ExactMatches(eval.c, eval.host, eval.port) \cup {9}) = 2
    /\ eval.c.DomainPatterns[1].Labels # eval.c.MonitoredDomains[2].Labels
    /\ MatchesWhole(eval.c.DomainPatterns[1].Pattern, eval.host)
    /\ eval.result.Labels = eval.c.MonitoredDomains[2].Labels

\* the port the claim gives a line without a port
DefaultPort(method, form) ==
    IF method = "CONNECT" \/ form = "https" THEN "443" ELSE "80"

\* the lines the claim excludes from the per-domain statistics
Excluded(form, host) ==
    form \in {"cache_object", "mgr", "internal", "urn"} \/ host \in {"", "-", "localhost"}

\* C23: a line whose URL is written from a form, a host and a port gets the
\* accumulator of that host and of its port, or of the default port of its
\* form when it has none; a proxy-internal URL or an empty, "-" or
\* localhost host leaves the per-domain accumulators as they were.
C23_HostPortDerivation ==
    eval.fn = "parseLine" =>
        IF Excluded(eval.form, eval.host)
        THEN eval.result.stats.DomainData = eval.before.DomainData
        ELSE /\ ~eval.result.err
             /\ DOMAIN eval.result.stats.DomainData =
                  DOMAIN eval.before.DomainData
                     \cup {<<eval.host, IF eval.port = "" THEN DefaultPort(eval.method, eval.form)
                                        ELSE eval.port>>}
             /\ \A k \in DOMAIN eval.before.DomainData :
                  k # <<eval.host, IF eval.port = "" THEN DefaultPort(eval.method, eval.form)
                                   ELSE eval.port>>
                     => eval.result.stats.DomainData[k] = eval.before.DomainData[k]

\* a CONNECT line without a port has made the accumulator of port 443
C23_Witness ==
    /\ eval.fn = "parseLine"
    /\ eval.method = "CONNECT"
    /\ eval.port = ""
    /\ <<"b.io", "443">> \in DOMAIN eval.result.stats.DomainData

\* v is the element at 0-based index i of the ascending sort of samples:
\* at most i samples are smaller and more than i are not larger
AtSortedIndex(samples, i, v) ==
    /\ Cardinality({j \in 1..Len(samples) : samples[j] < v}) <= i
    /\ Cardinality({j \in 1..Len(samples) : samples[j] <= v}) > i

Owner(datum) ==
    CASE datum = "lastSeen" -> "m.mu"
      [] datum = "allDomainsSeen" -> "p.mu"
      [] OTHER -> "none"

ExampleLineCounts ==
    /\ ~eval.result.err
    /\ eval.result.stats.Connections = 1
    /\ eval.result.stats.CacheStatuses = Inc(EmptyMap, "TCP_MISS", 1)
    /\ eval.result.stats.HTTPResponses = Inc(EmptyMap, <<"200", "2xx">>, 1)
    /\ eval.result.stats.HTTPByCategory = Inc(EmptyMap, "2xx", 1)
    /\ eval.ms = Inc(EmptyMap, "0-200", 1)
    /\ DOMAIN eval.result.stats.DomainData = {<<"example.com", "80">>}
    /\ eval.result.stats.DomainData[<<"example.com", "80">>].Requests = 1
    /\ eval.result.stats.DomainData[<<"example.com", "80">>].BytesOut = 1024
    /\ eval.result.stats.DomainData[<<"example.com", "80">>].CacheHits = 0

\* C26 as stated: the example line yields one connection, TCP_MISS once,
\* 200/2xx once, the millisecond interval 0-200 once, and example.com:80
\* with one request, 1024 bytes out, no cache hit and no cache miss.
C26_ZeroMisses ==
    (eval.fn = "endToEnd" /\ eval.line = ExampleLine)
       => /\ ExampleLineCounts
          /\ eval.result.stats.DomainData[<<"example.com", "80">>].CacheMisses = 0

\* C26, amended: as above, with one cache miss for example.com:80; the
\* millisecond interval is the legacy collector's, the parser's own
\* duration bucket for 150 ms is "0.5".
C26_EndToEnd ==
    (eval.fn = "endToEnd" /\ eval.line = ExampleLine)
       => /\ ExampleLineCounts
          /\ eval.result.stats.DomainData[<<"example.com", "80">>].CacheMisses = 1
          /\ eval.result.stats.RequestDurations = Inc(EmptyMap, "0.5", 1)

\* the example line went through parseLine
C26_Witness ==
    /\ eval.fn = "endToEnd"
    /\ eval.line = ExampleLine
    /\ eval.result.stats.Connections = 1

\* the offset of the handle less the bytes the scanner has read and not
\* yet returned: the end of the last line handed to parseLine
ConsumedOffset(sc) == sc.off - (sc.end - sc.start)

\* C27: the offset a checkpoint of the scan loop persists is the offset
\* right after the last line handed to parseLine.
C27_CheckpointAtLineEnd ==
    [][(/\ pc = "scan" /\ pc' = "scan"
        /\ run'.lineCount = run.lineCount + 1
        /\ run'.lineCount % CheckpointLines = 0
        /\ faults' = faults)
          => posFile'.Position = ConsumedOffset(run'.sc)]_vars

\* the step is a restart of the process: a new Parser with an empty set
ProcessRestarts == pc = "idle" /\ pc' = "idle" /\ allDomainsSeen' = {} /\ metrics' = NewMetrics

\* the accumulators of the run whose key was in the seen set before the run
SeenBefore == {k \in DOMAIN run.stats.DomainData : domainKey(k[1], k[2]) \in allDomainsSeen}

\* C28: within one process no key leaves the seen-domain set, and
\* updateMetrics reports every accumulator whose key was in the set before
\* the run as an individual domain, whatever the size of the set.
C28_SeenSetStable ==
    [][/\ (allDomainsSeen \subseteq allDomainsSeen') \/ ProcessRestarts
       /\ (pc = "update" /\ pc' = "save" /\ cfg.TrackAllDomains)
             => \A k \in SeenBefore :
                   \E c \in calls' :
                      /\ c.fn = "UpdateAllDomains"
                      /\ c.host = k[1] /\ c.port = k[2]
                      /\ c.requests = run.stats.DomainData[k].Requests]_vars

\* a run of a process that had accepted lines before, with the set at
\* MaxDomains, has reported a domain of the set individually
C28_Witness ==
    /\ pc = "save"
    /\ cfg.TrackAllDomains /\ cfg.MaxDomains > 0
    /\ Cardinality(allDomainsSeen) = cfg.MaxDomains
    /\ hist.accepted > 0
    /\ \E c \in calls :
          /\ c.fn = "UpdateAllDomains"
          /\ domainKey(c.host, c.port) \in allDomainsSeen

\* what the scan makes of a line: whether it is accepted and classified
\* to a domain, the key <<host, port>> and the cache status
LineFactOf(fields) ==
    [ok |-> ~HostPort(GetField(fields, "method"), GetField(fields, "url")).skip,
     key |-> <<HostPort(GetField(fields, "method"), GetField(fields, "url")).host,
               HostPort(GetField(fields, "method"), GetField(fields, "url")).port>>,
     status |-> Split(GetField(fields, "result_code"), "/")[1]]

LineFact(line) ==
    IF Malformed(line) THEN [ok |-> FALSE, key |-> <<"", "">>, status |-> ""]
    ELSE LineFactOf(splitPreservingQuotes(line))

\* the facts of the lines ls, from line i on
RECURSIVE LineFacts(_, _)
LineFacts(ls, i) ==
    IF i > Len(ls) THEN <<>> ELSE <<LineFact(ls[i])>> \o LineFacts(ls, i + 1)

\* the accepted lines that are classified to the key k
AcceptedAt(facts, k) == {i \in DOMAIN facts : facts[i].ok /\ facts[i].key = k}

\* the keys some accepted line is classified to
KeysOf(facts) == {facts[i].key : i \in {j \in DOMAIN facts : facts[j].ok}}

IsHit(status) == HasPrefix(status, "TCP_HIT") \/ HasPrefix(status, "TCP_MEM_HIT")

IsMiss(status) == HasPrefix(status, "TCP_MISS")

\* the accumulator data is the one of the lines at of facts
DataOfLines(data, facts, at) ==
    /\ data.Requests = Cardinality(at)
    /\ Len(data.Durations) = Cardinality(at)
    /\ data.CacheHits = Cardinality({i \in at : IsHit(facts[i].status)})
    /\ data.CacheMisses = Cardinality({i \in at : IsMiss(facts[i].status)})
    /\ data.CacheHits + data.CacheMisses <= data.Requests

\* the accumulators are the ones of the lines of facts
DomainDataOfLines(domainData, facts) ==
    /\ DOMAIN domainData = KeysOf(facts)
    /\ \A k \in DOMAIN domainData : DataOfLines(domainData[k], facts, AcceptedAt(facts, k))

\* the series of the cache-hit ratio of a monitored domain
RatioSeries(k) ==
    <<"squid_monitored_domains_cache_hit_ratio",
      buildLabelValues(k[1], k[2], MonitoredLabels(k[1], k[2]))>>

\* the ratio of the accumulator data is published in series, or when there
\* is neither hit nor miss the series is what it was in before
RatioPublished(data, series, gauges, before) ==
    IF data.CacheHits + data.CacheMisses > 0
    THEN /\ series \in DOMAIN gauges
         /\ gauges[series] = <<data.CacheHits, data.CacheHits + data.CacheMisses>>
         /\ gauges[series][1] >= 0
         /\ gauges[series][1] <= gauges[series][2]
    ELSE /\ (series \in DOMAIN gauges) = (series \in DOMAIN before)
         /\ series \in DOMAIN gauges => gauges[series] = before[series]

\* C29: when the scan of a run is over, the accumulators are those of the
\* keys of its accepted lines; each has as many requests, and as many
\* durations, as accepted lines of its key, as many hits as those with a
\* status that starts with TCP_HIT or TCP_MEM_HIT and as many misses as
\* those with one that starts with TCP_MISS, so hits + misses <= requests.
\* After updateMetrics the cache-hit ratio of a monitored domain of the run
\* is hits / (hits + misses), between 0 and 1, when hits + misses > 0, and
\* is what it was before the run otherwise.
C29_DomainStatistics ==
    /\ pc \in {"update", "save"} =>
         DomainDataOfLines(run.stats.DomainData, LineFacts(RunLines, 1))
    /\ pc = "save" =>
         \A k \in {d \in DOMAIN run.stats.DomainData : IsMonitored(d[1], d[2])} :
            RatioPublished(run.stats.DomainData[k], RatioSeries(k), metrics.gauges,
                           hist.before.gauges)

\* a run of two lines for the monitored a.io:80, one TCP_HIT and one
\* TCP_MISS, has published requests 2 and the ratio 1/2
C29_Witness ==
    /\ pc = "save"
    /\ <<"a.io", "80">> \in DOMAIN run.stats.DomainData
    /\ run.stats.DomainData[<<"a.io", "80">>].Requests = 2
    /\ run.stats.DomainData[<<"a.io", "80">>].CacheHits = 1
    /\ run.stats.DomainData[<<"a.io", "80">>].CacheMisses = 1
    /\ RatioSeries(<<"a.io", "80">>) \in DOMAIN metrics.gauges
    /\ metrics.gauges[RatioSeries(<<"a.io", "80">>)] = <<1, 2>>

\* the sum of the counts of a map
RECURSIVE MapSum(_, _)
MapSum(m, keys) ==
    IF keys = {} THEN 0
    ELSE m[CHOOSE k \in keys : TRUE] + MapSum(m, keys \ {CHOOSE k \in keys : TRUE})

\* the three global maps of an accumulator sum to n each
SumsAre(stats, n) ==
    /\ MapSum(stats.RequestDurations, DOMAIN stats.RequestDurations) = n
    /\ MapSum(stats.CacheStatuses, DOMAIN stats.CacheStatuses) = n
    /\ MapSum(stats.HTTPResponses, DOMAIN stats.HTTPResponses) = n

\* a step of the scan loop that accepts a line adds one connection; one
\* that rejects a line leaves the accumulator alone
CountsOnce ==
    (pc = "scan" /\ pc' = "scan")
       => /\ run'.lineCount = run.lineCount + 1
             => run'.stats.Connections = run.stats.Connections + 1
          /\ run'.lineCount = run.lineCount => run'.stats = run.stats

\* C30: at every point of a run the connections of its accumulator equal
\* the sum of its duration buckets, of its cache statuses and of its HTTP
\* code/category counts; and each accepted line adds exactly one to each.
C30_AccumulatorBalance ==
    /\ [](pc \in {"scan", "update", "save"} => SumsAre(run.stats, run.stats.Connections))
    /\ [][CountsOnce]_vars

\* two lines were accepted, with a proxy-internal URL or an excluded host:
\* they are counted and no domain has an accumulator
C30_Witness ==
    /\ pc = "scan"
    /\ run.lineCount = 2
    /\ run.stats.Connections = 2
    /\ run.stats.DomainData = EmptyMap
    /\ Cardinality(DOMAIN run.stats.HTTPResponses) = 2

\* the sum of the exported counter over the label values of one metric
CounterSum(counters, name) ==
    MapSum(counters, {k \in DOMAIN counters : k[1] = name})

\* C31: between the runs of a process squid_connections_total equals the
\* sum of squid_cache_status_total over its statuses and the sum of
\* squid_http_responses_total over its code/category pairs.
C31_GlobalCountersConsistent ==
    pc = "idle" =>
        /\ Get(metrics.counters, ConnectionsSeries)
              = CounterSum(metrics.counters, "squid_cache_status_total")
        /\ Get(metrics.counters, ConnectionsSeries)
              = CounterSum(metrics.counters, "squid_http_responses_total")

\* C32: the inode a checkpoint or a final save persists is the inode of
\* the file the run has open, the one its offset was measured in.
C32_InodeOfHandle ==
    [][(pc \in {"scan", "save"} /\ posFile' # posFile /\ posFile'.exists)
          => posFile'.Inode = run.fd]_vars

\* C33: a run over a log that does not change, whose saves succeed, ends
\* with the persisted offset at the size of the log: no content of the log
\* makes a run return with the offset short of it.
C33_RunReachesEnd ==
    [][(pc \in {"scan", "save"} /\ pc' = "idle" /\ faults' = faults)
          => (posFile'.exists /\ posFile'.Position = Len(files[run.fd]))]_vars

\* the calls of updateMetrics taken one by one end where updateMetrics ends
StepwiseAgrees ==
    (pc = "save" /\ scrape.pc = "idle") =>
        \E order \in Orders(DOMAIN run.stats.DomainData) :
            LET r == updateMetrics(scrape.start.m, scrape.start.seen, run.stats, order,
                                   cfg.TrackAllDomains, cfg.MaxDomains)
            IN  /\ metrics = r.m
                /\ allDomainsSeen = r.seen
                /\ calls = r.calls

\* C34: what a scrape reads beside a running Parse is the Metrics as they
\* were after a whole number of completed runs: of each run it shows all
\* the updates or none.
C34_ScrapeSeesWholeRuns ==
    scrape.snapshot \in scrape.whole

\* C35: a Save that returns an error leaves the position file as it was,
\* and GetPosition returns afterwards what it returned before the call, the
\* position persisted last.
C35_FailedSaveKeepsPosition ==
    [][(pc \in {"scan", "save"} /\ faults' = faults + 1)
          => (posFile' = posFile /\ tracker' = tracker)]_vars

\* the text of the position file decodes to the record the other
\* specifications keep in its place
TextIsRecord ==
    posFile.exists =>
        LoadText([Position |-> 0 - 1, Inode |-> 0 - 1], TRUE, save.text)
            = [Position |-> posFile.Position, Inode |-> posFile.Inode]

\* C36: after a Save(filename, o, i) that returned nil, a Load of the same
\* Tracker or of a new one on the same position file makes GetPosition
\* return (o, i); after two Saves it is the second value that is read.
C36_SaveLoadRoundTrip ==
    (save.op \in {"Load", "NewTracker"} /\ save.ok)
        => tracker = [Position |-> save.pos, Inode |-> save.inode]

\* a new Tracker has read the largest offset and inode from a file that
\* held another position before
C36_Witness ==
    /\ save.op = "NewTracker"
    /\ save.ok
    /\ tracker = [Position |-> 2147483647, Inode |-> 2147483647]
    /\ save.text # MarshalIndent("/l", 2147483647, 2147483647, "2026-01-02T03:04:05Z")

\* the Metrics without the series and the last-seen values of the
\* all-domains tier
OtherTiers(m) ==
    [lastSeen |-> [k \in {x \in DOMAIN m.lastSeen : ~HasPrefix(x, "all_")} |-> m.lastSeen[k]],
     counters |-> [k \in {x \in DOMAIN m.counters : ~HasPrefix(x[1], "squid_all_domains_")} |-> m.counters[k]],
     gauges |-> [k \in {x \in DOMAIN m.gauges : ~HasPrefix(x[1], "squid_all_domains_")} |-> m.gauges[k]]]

\* the other tiers of the Metrics m after updateMetrics of stats with
\* track_all_domains on, for some order of the accumulators
TrackedOutcomes(m, stats, maxDomains) ==
    {OtherTiers(updateMetrics(m, {}, stats, order, TRUE, maxDomains).m) :
        order \in Orders(DOMAIN stats.DomainData)}

\* C37: with track_all_domains off, updateMetrics calls UpdateAllDomains
\* for no domain and not for __other__, the set of seen domains stays
\* empty, and the global and the monitored-domain metrics become what they
\* become with track_all_domains on, whatever max_domains is.
C37_TrackAllOffIsNoOp ==
    /\ [](~cfg.TrackAllDomains => allDomainsSeen = {})
    /\ [][(pc = "update" /\ ~cfg.TrackAllDomains) =>
             /\ \A c \in calls' : c.fn # "UpdateAllDomains"
             /\ metrics' = OtherTiers(metrics')
             /\ \A maxDomains \in 0..MaxDomainsBound :
                   OtherTiers(metrics') \in TrackedOutcomes(metrics, run.stats, maxDomains)]_vars

\* with track_all_domains off a run has published the requests of the
\* monitored a.io and of a domain that is not monitored
C37_Witness ==
    /\ ~cfg.TrackAllDomains
    /\ pc = "save"
    /\ Cardinality(DOMAIN run.stats.DomainData) >= 2
    /\ \E c \in calls : c.fn = "UpdateMonitoredDomain"
    /\ Get(metrics.counters, ConnectionsSeries) >= 2

\* the values behind the first skip entries of a label vector are the
\* values of the rule for the keys names name there, "" for a missing key
ValuesFollowNames(names, values, skip, labels) ==
    /\ Len(values) = Len(names)
    /\ \A j \in (skip + 1)..Len(names) : values[j] = LabelGet(labels, names[j])

\* C38: for every rule and pattern of a configuration, whatever keys its
\* label map has, each label vector UpdateMonitoredDomain builds has as
\* many entries as the metric has label names, with the custom values in
\* the sorted order of the keys and "" for a missing key; the keys are
\* those of all rules, each once.
C38_LabelArity ==
    eval.fn = "labelValues" =>
        /\ \A k \in LabelKeySet(eval.c.MonitoredDomains, 1) \cup LabelKeySet(eval.c.DomainPatterns, 1) :
              Cardinality({j \in 1..Len(eval.keys) : eval.keys[j] = k}) = 1
        /\ \A i \in 1..Len(eval.vectors) :
              /\ ValuesFollowNames(monitoredLabels(eval.keys), eval.vectors[i].base, 2, eval.vectors[i].labels)
              /\ ValuesFollowNames(monitoredBytesLabels(eval.keys), eval.vectors[i].bytes, 3, eval.vectors[i].labels)
              /\ ValuesFollowNames(monitoredHTTPLabels(eval.keys), eval.vectors[i].http, 4, eval.vectors[i].labels)

\* a rule with no labels beside a pattern with both keys
C38_Witness ==
    /\ eval.fn = "labelValues"
    /\ eval.keys = <<"env", "team">>
    /\ Len(eval.vectors) = 2
    /\ eval.vectors[1].base = <<"a.io", "80", "", "">>
    /\ eval.vectors[2].http = <<"b.io", "443", "200", "2xx", "prod", "x">>

\* C19: when LoadConfig fails, the process ends before any Parse is called
\* and without serving metrics.
C19_ConfigErrorFatal ==
    main.loadErr # "" => (main.parses = 0 /\ main.server = "off")

TypeOK == pc \in {"idle", "opened", "scan", "update", "save"}
====
